---- MODULE Spec2Model ----
(***************************************************************************)
(* Model of the AI move service (QuackleGADDAGAIService) and of the AI     *)
(* turn execution of GameService.                                          *)
(*                                                                         *)
(* JavaScript runs one handler at a time: every action below is the code   *)
(* one coroutine executes between two awaits (or timer callbacks).         *)
(***************************************************************************)
EXTENDS Integers, Sequences, FiniteSets, TLC

(***************************************************************************)
(* Bounds of the model                                                     *)
(***************************************************************************)
\* concurrent generateMove calls
NCallers == 2
\* characters in the word source file
MaxContentLen == 3
\* tiles on the rack of a call, besides the full rack
MaxRackLen == 2
\* candidates of a search whose candidates and verdicts vary freely
MaxShortList == 2
\* candidates of a search with a long candidate list
MaxMoves == 16
\* concurrent requests to NewRoomManager
NRequests == 2

(***************************************************************************)
(* Program constants                                                       *)
(***************************************************************************)
BOARD_SIZE == 15
\* generateMove: moves.slice(0, 15)
TopMoves == 15
\* generateMove: setTimeout(..., 2000) around generateMoves
GenTimeoutMs == 2000
\* generateStrategicExchange: Math.max(3, Math.floor(Math.random() * 3) + 3)
MinExchange == 3
MaxExchange == 5

Null == "null"
\* no file at any of the possible paths
Missing == [exists |-> FALSE, content |-> <<>>]
\* a field that holds null: built by no initialize() call
NullGaddag == [build |-> 0, paths |-> {}]
NullDictionary == [build |-> 0, words |-> {}]
NoMove == [type |-> "none", tiles |-> <<>>, exchangeTileIds |-> <<>>]
\* no game in GameService.games
NoGame ==
  [players |-> <<>>, currentPlayerIndex |-> 0, turnNumber |-> 0, tileBag |-> <<>>,
   gamePhase |-> "NONE", board |-> {}, playersEndedGame |-> <<>>, moveHistory |-> <<>>]
\* no row of the room in PostgreSQL, no value of the key in Redis
NoRoom ==
  [players |-> <<>>, isStarted |-> FALSE, intercessionSelectionStarted |-> FALSE,
   gameState |-> FALSE]
\* no timer of checkAndExecuteAITurn
FreeJob == [pc |-> "free", player |-> Null, mover |-> Null, gs |-> NoGame, observed |-> Null]

Callers == 1..NCallers
\* the requests to NewRoomManager
Requests == 1..NRequests
\* the writes that have completed: the players added, the room started
NoWrites == [players |-> {}, isStarted |-> FALSE]
\* a request that has not been made
IdleRequest ==
  [op |-> "none", pc |-> "idle", caller |-> Null, getPc |-> "idle", got |-> NoRoom,
   began |-> NoWrites, room |-> NoRoom,
   newPlayer |-> [id |-> Null, name |-> Null, isHost |-> FALSE, isAI |-> FALSE,
                  selected |-> FALSE],
   wrote |-> "none", gameState |-> FALSE, result |-> Null]
\* one promise per call of initialize(); each caller calls it at most once
PromiseIds == 1..NCallers

(***************************************************************************)
(* Text processing of the word source:                                     *)
(*   content.trim().split('\n').map(word => word.trim().toUpperCase())     *)
(***************************************************************************)
Chars == {"a", " ", "\n"}

IsSpace(ch) == ch \in {" ", "\n"}

ToUpperChar(ch) ==
  IF ch = "a" THEN "A"
  ELSE IF ch = "c" THEN "C"
  ELSE IF ch = "s" THEN "S"
  ELSE IF ch = "t" THEN "T"
  ELSE ch

toUpperCase(s) == [i \in 1..Len(s) |-> ToUpperChar(s[i])]

RECURSIVE TrimLeft(_)
TrimLeft(s) ==
  IF s # <<>> /\ IsSpace(Head(s)) THEN TrimLeft(Tail(s)) ELSE s

RECURSIVE TrimRight(_)
TrimRight(s) ==
  IF s # <<>> /\ IsSpace(s[Len(s)]) THEN TrimRight(SubSeq(s, 1, Len(s) - 1)) ELSE s

trim(s) == TrimRight(TrimLeft(s))

\* split('\n'): the pieces between newlines; the empty string gives one
\* empty piece
RECURSIVE SplitLines(_, _)
SplitLines(s, cur) ==
  IF s = <<>> THEN <<cur>>
  ELSE IF Head(s) = "\n" THEN <<cur>> \o SplitLines(Tail(s), <<>>)
  ELSE SplitLines(Tail(s), Append(cur, Head(s)))

split(s) == SplitLines(s, <<>>)

\* the words read from a file content
ReadWords(content) ==
  LET pieces == split(trim(content))
  IN  [i \in 1..Len(pieces) |-> toUpperCase(trim(pieces[i]))]

RECURSIVE SeqsUpTo(_, _)
SeqsUpTo(S, n) ==
  IF n = 0 THEN {<<>>}
  ELSE LET shorter == SeqsUpTo(S, n - 1)
       IN  shorter \cup {Append(s, x) : s \in {t \in shorter : Len(t) = n - 1}, x \in S}

Contents == SeqsUpTo(Chars, MaxContentLen)

\* the word source: no file, or a file with some content
Sources == {Missing} \cup {[exists |-> TRUE, content |-> content] : content \in Contents}

(***************************************************************************)
(* GADDAG (Gaddag.addWord): all n+1 rotations of the word                  *)
(***************************************************************************)
Delimiter == ">"

Reverse(s) == [i \in 1..Len(s) |-> s[Len(s) + 1 - i]]

Rotation(w, i) == Reverse(SubSeq(w, 1, i)) \o <<Delimiter>> \o SubSeq(w, i + 1, Len(w))

addWord(paths, w) == paths \cup {Rotation(w, i) : i \in 0..Len(w)}

\* mutant: the loop stops after the first word
AddFirstWord(paths, words) ==
  IF words = <<>> \/ Head(words) = <<>> THEN paths
  ELSE paths \cup {Reverse(SubSeq(Head(words), 1, i)) \o <<Delimiter>>
                     \o SubSeq(Head(words), i + 1, Len(Head(words))) :
                   i \in 0..Len(Head(words))}

\* the loop of buildGaddagFromDictionaryService over the words of the file
RECURSIVE AddWords(_, _)
AddWords(paths, words) ==
  IF words = <<>> THEN paths
  ELSE AddWords(IF Head(words) # <<>> /\ Len(Head(words)) > 0
                  THEN addWord(paths, Head(words))
                  ELSE paths,
                Tail(words))

Range(s) == {s[i] : i \in 1..Len(s)}

VARIABLES
  source,          \* the word source on disk
  dsWords,         \* dictionaryService.words
  dsLoaded,        \* dictionaryService.isLoaded
  gaddag,          \* QuackleGADDAGAIService.gaddag
  dictionary,      \* QuackleGADDAGAIService.dictionary
  initPromise,     \* QuackleGADDAGAIService.initPromise (0: null)
  isInitializing,  \* QuackleGADDAGAIService.isInitializing
  promises,        \* state of the promise of each initialize() call
  initPc,          \* position of each initialize() coroutine
  calls,           \* the generateMove calls
  game,            \* GameService.games: the state of the game of the room
  pendingTiles,    \* GameService.pendingTiles of the game
  jobs,            \* the timer callbacks of checkAndExecuteAITurn
  pgRoom,          \* DatabaseService.pg: the row of the room with its players
  redisRoom,       \* DatabaseService.redis: the value of the key room:<id>
  reqs             \* the requests to NewRoomManager and their positions

svcVars == <<source, dsWords, dsLoaded, gaddag, dictionary, initPromise,
             isInitializing, promises, initPc>>

gameVars == <<game, pendingTiles, jobs>>

roomVars == <<pgRoom, redisRoom, reqs>>

vars == <<source, dsWords, dsLoaded, gaddag, dictionary, initPromise,
          isInitializing, promises, initPc, calls, game, pendingTiles, jobs,
          pgRoom, redisRoom, reqs>>

(***************************************************************************)
(* Tiles, boards and candidate moves                                       *)
(***************************************************************************)
\* Tile of types/game: id, letter, value, isBlank (chosenLetter is set on a
\* blank that stands for a letter)
MkTile(id, letter, value, isBlank) ==
  [id |-> id, letter |-> letter, value |-> value, isBlank |-> isBlank,
   chosenLetter |-> Null]

TILE_A1 == MkTile("t1", "A", 1, FALSE)
TILE_A2 == MkTile("t2", "A", 1, FALSE)
TILE_T == MkTile("t3", "T", 1, FALSE)
TILE_K == MkTile("t4", "K", 5, FALSE)
TILE_BLANK == MkTile("t5", "?", 0, TRUE)

TileSet == {TILE_A1, TILE_A2, TILE_T, TILE_K, TILE_BLANK}

\* gameBoard[row][col].tile is set; the board is kept as the set of its
\* occupied cells
HasTile(board, row, col) ==
  \E cell \in board : cell.row = row /\ cell.col = col

InBoard(row, col) ==
  row >= 0 /\ col >= 0 /\ row < BOARD_SIZE /\ col < BOARD_SIZE

\* mutant: the find that forgets the tiles already used
FindLetterTileReusing(playerTiles, letter, usedTileIds) ==
  LET hits == {i \in 1..Len(playerTiles) :
                 ToUpperChar(playerTiles[i].letter) = letter}
  IN  IF hits = {} THEN 0 ELSE CHOOSE i \in hits : \A j \in hits : i <= j

\* playerTiles.find(t => t.letter.toUpperCase() === letter &&
\*                       !usedTileIds.includes(t.id))
FindLetterTile(playerTiles, letter, usedTileIds) ==
  LET hits == {i \in 1..Len(playerTiles) :
                 /\ ToUpperChar(playerTiles[i].letter) = letter
                 /\ playerTiles[i].id \notin usedTileIds}
  IN  IF hits = {} THEN 0 ELSE CHOOSE i \in hits : \A j \in hits : i <= j

\* playerTiles.find(t => t.isBlank && !usedTileIds.includes(t.id))
FindBlankTile(playerTiles, usedTileIds) ==
  LET hits == {i \in 1..Len(playerTiles) :
                 /\ playerTiles[i].isBlank
                 /\ playerTiles[i].id \notin usedTileIds}
  IN  IF hits = {} THEN 0 ELSE CHOOSE i \in hits : \A j \in hits : i <= j

\* mutant: the loop that puts a rack tile on every cell of the word,
\* occupied or not
RECURSIVE ConvertFromCovering(_, _, _, _, _, _)
ConvertFromCovering(move, playerTiles, gameBoard, i, placedTiles, usedTileIds) ==
  IF i > Len(move.word) THEN placedTiles
  ELSE
    LET row == IF move.dir = "H" THEN move.row ELSE move.row + (i - 1)
        col == IF move.dir = "H" THEN move.col + (i - 1) ELSE move.col
        letter == ToUpperChar(move.word[i])
        regular == FindLetterTile(playerTiles, letter, usedTileIds)
        blank == FindBlankTile(playerTiles, usedTileIds)
    IN  IF regular # 0
          THEN ConvertFromCovering(move, playerTiles, gameBoard, i + 1,
                 Append(placedTiles, [tile |-> playerTiles[regular], row |-> row, col |-> col]),
                 usedTileIds \cup {playerTiles[regular].id})
        ELSE IF blank # 0
          THEN ConvertFromCovering(move, playerTiles, gameBoard, i + 1,
                 Append(placedTiles,
                   [tile |-> [playerTiles[blank] EXCEPT !.chosenLetter = letter,
                                                        !.value = 0,
                                                        !.isBlank = TRUE],
                    row |-> row, col |-> col]),
                 usedTileIds \cup {playerTiles[blank].id})
        ELSE <<>>

\* mutant: the blank takes the value of the letter it stands for
RECURSIVE ConvertFromValuedBlank(_, _, _, _, _, _)
ConvertFromValuedBlank(move, playerTiles, gameBoard, i, placedTiles, usedTileIds) ==
  IF i > Len(move.word) THEN placedTiles
  ELSE
    LET row == IF move.dir = "H" THEN move.row ELSE move.row + (i - 1)
        col == IF move.dir = "H" THEN move.col + (i - 1) ELSE move.col
        letter == ToUpperChar(move.word[i])
        regular == FindLetterTile(playerTiles, letter, usedTileIds)
        blank == FindBlankTile(playerTiles, usedTileIds)
    IN  IF InBoard(row, col) /\ HasTile(gameBoard, row, col)
          THEN ConvertFromValuedBlank(move, playerTiles, gameBoard, i + 1,
                 placedTiles, usedTileIds)
        ELSE IF regular # 0
          THEN ConvertFromValuedBlank(move, playerTiles, gameBoard, i + 1,
                 Append(placedTiles, [tile |-> playerTiles[regular], row |-> row, col |-> col]),
                 usedTileIds \cup {playerTiles[regular].id})
        ELSE IF blank # 0
          THEN ConvertFromValuedBlank(move, playerTiles, gameBoard, i + 1,
                 Append(placedTiles,
                   [tile |-> [playerTiles[blank] EXCEPT !.chosenLetter = letter,
                                                        !.value = IF letter = "C" THEN 3 ELSE 1,
                                                        !.isBlank = TRUE],
                    row |-> row, col |-> col]),
                 usedTileIds \cup {playerTiles[blank].id})
        ELSE <<>>

\* the loop of convertGaddagMoveToPlacedTiles from letter i of the word on
RECURSIVE ConvertFrom(_, _, _, _, _, _)
ConvertFrom(move, playerTiles, gameBoard, i, placedTiles, usedTileIds) ==
  IF i > Len(move.word) THEN placedTiles
  ELSE
    LET row == IF move.dir = "H" THEN move.row ELSE move.row + (i - 1)
        col == IF move.dir = "H" THEN move.col + (i - 1) ELSE move.col
        letter == ToUpperChar(move.word[i])
        regular == FindLetterTile(playerTiles, letter, usedTileIds)
        blank == FindBlankTile(playerTiles, usedTileIds)
    IN  IF InBoard(row, col) /\ HasTile(gameBoard, row, col)
          THEN ConvertFrom(move, playerTiles, gameBoard, i + 1, placedTiles, usedTileIds)
        ELSE IF regular # 0
          THEN ConvertFrom(move, playerTiles, gameBoard, i + 1,
                 Append(placedTiles, [tile |-> playerTiles[regular], row |-> row, col |-> col]),
                 usedTileIds \cup {playerTiles[regular].id})
        ELSE IF blank # 0
          THEN ConvertFrom(move, playerTiles, gameBoard, i + 1,
                 Append(placedTiles,
                   [tile |-> [playerTiles[blank] EXCEPT !.chosenLetter = letter,
                                                        !.value = 0,
                                                        !.isBlank = TRUE],
                    row |-> row, col |-> col]),
                 usedTileIds \cup {playerTiles[blank].id})
        ELSE <<>>

convertGaddagMoveToPlacedTiles(move, playerTiles, gameBoard) ==
  ConvertFrom(move, playerTiles, gameBoard, 1, <<>>, {})

\* mutant: the last tile of the player is left out of the rack
convertTilesToRackWithoutLast(tiles) ==
  [i \in 1..(Len(tiles) - 1) |->
     IF tiles[i].isBlank THEN "?" ELSE ToUpperChar(tiles[i].letter)]

\* convertTilesToRack
convertTilesToRack(tiles) ==
  [i \in 1..Len(tiles) |->
     IF tiles[i].isBlank THEN "?" ELSE ToUpperChar(tiles[i].letter)]

(***************************************************************************)
(* generateStrategicExchange                                               *)
(***************************************************************************)
IsVowel(letter) == ToUpperChar(letter) \in {"A", "E", "I", "O", "U"}

\* the comparator of tileValues.sort: negative when a goes before b
ExchangeBefore(a, b) ==
  IF IsVowel(a.letter) # IsVowel(b.letter) THEN ~IsVowel(a.letter)
  ELSE a.value < b.value

\* Array.prototype.sort is stable: insertion after the last element that
\* does not go after t
RECURSIVE InsertSorted(_, _)
InsertSorted(sorted, t) ==
  IF sorted = <<>> THEN <<t>>
  ELSE IF ExchangeBefore(t, Head(sorted)) THEN <<t>> \o sorted
  ELSE <<Head(sorted)>> \o InsertSorted(Tail(sorted), t)

RECURSIVE SortForExchange(_)
SortForExchange(tiles) ==
  IF tiles = <<>> THEN <<>>
  ELSE InsertSorted(SortForExchange(SubSeq(tiles, 1, Len(tiles) - 1)), tiles[Len(tiles)])

Min(a, b) == IF a < b THEN a ELSE b
Max(a, b) == IF a > b THEN a ELSE b

\* mutant: the fallback built as a word move of the tiles
generateStrategicExchangeAsWord(tiles, random) ==
  [type |-> "WORD",
   tiles |-> [i \in 1..Len(tiles) |-> [tile |-> tiles[i], row |-> 7, col |-> 6 + i]],
   exchangeTileIds |-> <<>>]

\* random is the value of Math.floor(Math.random() * 3) + 3
generateStrategicExchange(tiles, random) ==
  LET exchangeCount == Min(Max(MinExchange, random), Len(tiles))
      sorted == SortForExchange(tiles)
  IN  [type |-> "EXCHANGE",
       tiles |-> <<>>,
       exchangeTileIds |-> [i \in 1..exchangeCount |-> sorted[i].id]]

WordMove(placedTiles) ==
  [type |-> "WORD", tiles |-> placedTiles, exchangeTileIds |-> <<>>]

PassMove == [type |-> "PASS", tiles |-> <<>>, exchangeTileIds |-> <<>>]

(***************************************************************************)
(* Inputs of a generateMove call and outputs of the collaborators that     *)
(* are not part of the service (Board.generateMoves, validateMove)         *)
(***************************************************************************)
\* a call that has not been made
IdleCall ==
  [pc |-> "idle", playerFound |-> FALSE, tiles |-> <<>>, board |-> {},
   awaiting |-> 0, searched |-> FALSE, moves |-> <<>>, verdicts |-> <<>>,
   elapsed |-> 0,
   idx |-> 0, placedTiles |-> <<>>, result |-> NoMove, via |-> Null]

\* Move of gaddag/generator
MkMove(word, row, col, dir) == [word |-> word, row |-> row, col |-> col, dir |-> dir]

\* Board.generateMoves(rack, gaddag) is synchronous: it returns the ranked
\* candidates (or throws) after `elapsed` milliseconds of the event loop;
\* verdicts[i] is what validateMove answers for candidate i
MkSearch(moves, verdicts, elapsed, throws) ==
  [moves |-> moves, verdicts |-> verdicts, elapsed |-> elapsed, throws |-> throws]

\* validateMove(placedTiles, board): what the validation of the game answers
\* for the placement is an input of the model
validateMove(placedTiles, verdict) == verdict

(***************************************************************************)
(* Initial state: nothing loaded, no call made                             *)
(***************************************************************************)
ServiceInit(sources) ==
  /\ source \in sources
  /\ dsWords = NullDictionary
  /\ dsLoaded = FALSE
  /\ gaddag = NullGaddag
  /\ dictionary = NullDictionary
  /\ initPromise = 0
  /\ isInitializing = FALSE
  /\ promises = [p \in PromiseIds |-> "unused"]
  /\ initPc = [p \in PromiseIds |-> "none"]
  /\ calls = [c \in Callers |-> IdleCall]

\* the service before any game is created
\* no room has been created
NoRooms ==
  /\ pgRoom = NoRoom
  /\ redisRoom = NoRoom
  /\ reqs = [r \in Requests |-> IdleRequest]

InitWith(sources) ==
  /\ ServiceInit(sources)
  /\ NoRooms
  /\ game = NoGame
  /\ pendingTiles = <<>>
  /\ jobs = [c \in Callers |-> FreeJob]

(***************************************************************************)
(* dictionaryService.loadDictionary: runs to completion without awaiting   *)
(***************************************************************************)
LoadSkips == dsLoaded /\ dsWords # NullDictionary

LoadThrows == ~LoadSkips /\ ~source.exists

loadDictionary ==
  IF LoadSkips \/ LoadThrows
    THEN UNCHANGED <<dsWords, dsLoaded>>
    ELSE /\ dsWords' = [build |-> 1, words |-> Range(ReadWords(source.content))]
         /\ dsLoaded' = TRUE

(***************************************************************************)
(* QuackleGADDAGAIService.initialize                                       *)
(***************************************************************************)
\* the early return of initialize
InitGuard == isInitializing \/ (gaddag # NullGaddag /\ dictionary # NullDictionary)

\* mutant: ensureInitialized without the memoized promise
NeedsInitPromiseAlways == TRUE

\* ensureInitialized: if (!this.initPromise)
NeedsInitPromise == initPromise = 0

NewPromise == CHOOSE p \in PromiseIds : promises[p] = "unused"

\* initialize() up to its first await; p is the promise it returns
initializeStart(p) ==
  IF InitGuard
    THEN /\ promises' = [promises EXCEPT ![p] = "fulfilled"]
         /\ UNCHANGED <<isInitializing, initPc, dsWords, dsLoaded>>
    ELSE /\ isInitializing' = TRUE
         /\ loadDictionary
         /\ promises' = [promises EXCEPT ![p] = "pending"]
         /\ initPc' = [initPc EXCEPT ![p] = IF LoadThrows THEN "loadFailed" ELSE "loaded"]

\* catch (error) { this.isInitializing = false; throw error; } finally {...}
initializeFails(p) ==
  /\ isInitializing' = FALSE
  /\ promises' = [promises EXCEPT ![p] = "rejected"]
  /\ initPc' = [initPc EXCEPT ![p] = "failed"]

\* after await dictionaryService.loadDictionary()
InitAfterLoad(p) ==
  /\ initPc[p] \in {"loaded", "loadFailed"}
  /\ IF initPc[p] = "loadFailed"
       THEN initializeFails(p)
       ELSE /\ initPc' = [initPc EXCEPT ![p] = "building"]
            /\ UNCHANGED <<isInitializing, promises>>
  /\ UNCHANGED <<source, dsWords, dsLoaded, gaddag, dictionary, initPromise, calls>>
  /\ UNCHANGED <<gameVars, roomVars>>

\* mutant: the GADDAG built from the words read backwards
buildGaddagFromReversedWords(build) ==
  LET words == ReadWords(source.content)
  IN  [build |-> build,
       paths |-> AddWords({}, [i \in 1..Len(words) |-> Reverse(words[i])])]

\* buildGaddagFromDictionaryService: the Gaddag of the first existing file
buildGaddagFromDictionaryService(build) ==
  [build |-> build, paths |-> AddWords({}, ReadWords(source.content))]

\* mutant: the words of the set keep the case of the file
getDictionarySetAsWritten(build) ==
  LET pieces == split(trim(source.content))
  IN  [build |-> build, words |-> {trim(pieces[i]) : i \in 1..Len(pieces)}]

\* getDictionarySet
getDictionarySet(build) ==
  [build |-> build, words |-> Range(ReadWords(source.content))]

\* the build settles before its 30 s timer
InitBuildSettled(p) ==
  /\ initPc[p] = "building"
  /\ IF ~source.exists
       THEN initializeFails(p) /\ UNCHANGED gaddag
       ELSE /\ gaddag' = buildGaddagFromDictionaryService(p)
            /\ initPc' = [initPc EXCEPT ![p] = "loadingSet"]
            /\ UNCHANGED <<isInitializing, promises>>
  /\ UNCHANGED <<source, dsWords, dsLoaded, dictionary, initPromise, calls>>
  /\ UNCHANGED <<gameVars, roomVars>>

\* 'GADDAG build timeout'
InitBuildTimeout(p) ==
  /\ initPc[p] = "building"
  /\ initializeFails(p)
  /\ UNCHANGED <<source, dsWords, dsLoaded, gaddag, dictionary, initPromise, calls>>
  /\ UNCHANGED <<gameVars, roomVars>>

\* the dictionary set settles before its 10 s timer
InitSetSettled(p) ==
  /\ initPc[p] = "loadingSet"
  /\ IF ~source.exists
       THEN initializeFails(p) /\ UNCHANGED dictionary
       ELSE /\ dictionary' = getDictionarySet(p)
            /\ isInitializing' = FALSE
            /\ promises' = [promises EXCEPT ![p] = "fulfilled"]
            /\ initPc' = [initPc EXCEPT ![p] = "done"]
  /\ UNCHANGED <<source, dsWords, dsLoaded, gaddag, initPromise, calls>>
  /\ UNCHANGED <<gameVars, roomVars>>

\* 'Dictionary load timeout'
InitSetTimeout(p) ==
  /\ initPc[p] = "loadingSet"
  /\ initializeFails(p)
  /\ UNCHANGED <<source, dsWords, dsLoaded, gaddag, dictionary, initPromise, calls>>
  /\ UNCHANGED <<gameVars, roomVars>>

(***************************************************************************)
(* QuackleGADDAGAIService.generateMove                                     *)
(***************************************************************************)
\* Math.floor(Math.random() * 3) + 3
RandomCounts == MinExchange..MaxExchange

Return(c, move, via) ==
  calls' = [calls EXCEPT ![c] = [@ EXCEPT !.pc = "returned", !.result = move, !.via = via]]

\* return this.generateStrategicExchange(player.tiles)
ReturnExchange(c, via) ==
  \E random \in RandomCounts :
    Return(c, generateStrategicExchange(calls[c].tiles, random), via)

\* generateMove(gameState, playerId) up to the await of ensureInitialized;
\* input holds the board and the tiles of the player in gameState
GenCall(c, input) ==
  /\ calls[c].pc = "idle"
  /\ IF ~input.playerFound
       THEN /\ Return(c, PassMove, "noPlayer")
            /\ UNCHANGED <<svcVars, roomVars>>
       ELSE IF NeedsInitPromise
         THEN /\ initializeStart(NewPromise)
              /\ initPromise' = NewPromise
              /\ calls' = [calls EXCEPT ![c] =
                   [@ EXCEPT !.pc = "awaitInit", !.playerFound = TRUE,
                             !.tiles = input.tiles, !.board = input.board,
                             !.awaiting = NewPromise]]
              /\ UNCHANGED <<source, gaddag, dictionary, roomVars>>
         ELSE /\ calls' = [calls EXCEPT ![c] =
                   [@ EXCEPT !.pc = "awaitInit", !.playerFound = TRUE,
                             !.tiles = input.tiles, !.board = input.board,
                             !.awaiting = initPromise]]
              /\ UNCHANGED <<svcVars, roomVars>>

\* mutant: the rejection of the initialization promise is thrown to the caller
GenInitRejectedThrowing(c) ==
  /\ calls[c].pc = "awaitInit"
  /\ promises[calls[c].awaiting] = "rejected"
  /\ calls' = [calls EXCEPT ![c] = [@ EXCEPT !.pc = "threw", !.via = "initError"]]
  /\ UNCHANGED <<svcVars, roomVars>>
  /\ UNCHANGED <<gameVars, roomVars>>

\* the initialization promise rejects: catch, strategic exchange
GenInitRejected(c) ==
  /\ calls[c].pc = "awaitInit"
  /\ promises[calls[c].awaiting] = "rejected"
  /\ ReturnExchange(c, "initError")
  /\ UNCHANGED <<svcVars, roomVars>>
  /\ UNCHANGED <<gameVars, roomVars>>

\* 'AI initialization timeout': the 3 s timer fires while the promise is pending
GenInitTimeout(c) ==
  /\ calls[c].pc = "awaitInit"
  /\ promises[calls[c].awaiting] = "pending"
  /\ ReturnExchange(c, "initTimeout")
  /\ UNCHANGED <<svcVars, roomVars>>
  /\ UNCHANGED <<gameVars, roomVars>>

\* the search result is settled when generateMoves returns; the 2 s timer is
\* created after that
SearchSettledAt(elapsed) == elapsed

TimerFiresAt(elapsed) == elapsed + GenTimeoutMs

\* Promise.race rejects only if the timer fires before the result is settled
GenerationTimedOut(elapsed) == TimerFiresAt(elapsed) < SearchSettledAt(elapsed)

\* mutant: the catch of a failed search drops the GADDAG to have it rebuilt
GenInitFulfilledResetting(c, search) ==
  /\ calls[c].pc = "awaitInit"
  /\ promises[calls[c].awaiting] = "fulfilled"
  /\ IF gaddag = NullGaddag \/ dictionary = NullDictionary
       THEN ReturnExchange(c, "noGaddag") /\ UNCHANGED gaddag
       ELSE IF search.throws
         THEN ReturnExchange(c, "searchError") /\ gaddag' = NullGaddag
         ELSE /\ calls' = [calls EXCEPT ![c] =
                   [@ EXCEPT !.pc = "awaitMoves", !.searched = TRUE,
                             !.moves = search.moves,
                             !.verdicts = search.verdicts, !.elapsed = search.elapsed]]
              /\ UNCHANGED gaddag
  /\ UNCHANGED <<source, dsWords, dsLoaded, dictionary, initPromise,
                 isInitializing, promises, initPc>>
  /\ UNCHANGED <<gameVars, roomVars>>

\* the initialization promise fulfils: generateMove runs the search
GenInitFulfilled(c, search) ==
  /\ calls[c].pc = "awaitInit"
  /\ promises[calls[c].awaiting] = "fulfilled"
  /\ IF gaddag = NullGaddag \/ dictionary = NullDictionary
       THEN ReturnExchange(c, "noGaddag")
       ELSE IF search.throws
         THEN ReturnExchange(c, "searchError")
         ELSE calls' = [calls EXCEPT ![c] =
                [@ EXCEPT !.pc = "awaitMoves", !.searched = TRUE,
                          !.moves = search.moves,
                          !.verdicts = search.verdicts, !.elapsed = search.elapsed]]
  /\ UNCHANGED <<svcVars, roomVars>>
  /\ UNCHANGED <<gameVars, roomVars>>

\* mutant: the loop over all the moves
TriedMovesAll(moves) == moves

\* for (const move of moves.slice(0, 15))
TriedMoves(moves) == SubSeq(moves, 1, Min(TopMoves, Len(moves)))

\* the race settles: no moves, or the first candidate goes to validation
GenMovesSettled(c) ==
  /\ calls[c].pc = "awaitMoves"
  /\ IF GenerationTimedOut(calls[c].elapsed)
       THEN ReturnExchange(c, "searchError")
       ELSE IF Len(calls[c].moves) = 0
         THEN ReturnExchange(c, "noMoves")
         ELSE calls' = [calls EXCEPT ![c] =
                [@ EXCEPT !.pc = "validating", !.idx = 1,
                          !.placedTiles = convertGaddagMoveToPlacedTiles(
                             calls[c].moves[1], calls[c].tiles, calls[c].board)]]
  /\ UNCHANGED <<svcVars, roomVars>>
  /\ UNCHANGED <<gameVars, roomVars>>

\* the tiles that are not among the placed ones
WithoutPlaced(tiles, placedTiles) ==
  SelectSeq(tiles, LAMBDA t : \A i \in 1..Len(placedTiles) : placedTiles[i].tile.id # t.id)

\* mutant: the tiles of an accepted word are taken off the rack of the player
GenValidatedConsuming(c) ==
  /\ calls[c].pc = "validating"
  /\ LET call == calls[c]
         validation == validateMove(call.placedTiles, call.verdicts[call.idx])
     IN  IF validation = "valid"
           THEN calls' = [calls EXCEPT ![c] =
                  [@ EXCEPT !.pc = "returned", !.result = WordMove(call.placedTiles),
                            !.via = "word",
                            !.tiles = WithoutPlaced(call.tiles, call.placedTiles)]]
           ELSE IF call.idx + 1 > Len(TriedMoves(call.moves))
             THEN ReturnExchange(c, "noValid")
             ELSE calls' = [calls EXCEPT ![c] =
                    [@ EXCEPT !.idx = call.idx + 1,
                              !.placedTiles = convertGaddagMoveToPlacedTiles(
                                 call.moves[call.idx + 1], call.tiles, call.board)]]
  /\ UNCHANGED <<svcVars, roomVars>>
  /\ UNCHANGED <<gameVars, roomVars>>

\* validateMove answers for the candidate under validation
GenValidated(c) ==
  /\ calls[c].pc = "validating"
  /\ LET call == calls[c]
         validation == validateMove(call.placedTiles, call.verdicts[call.idx])
     IN  IF validation = "valid"
           THEN Return(c, WordMove(call.placedTiles), "word")
           ELSE IF call.idx + 1 > Len(TriedMoves(call.moves))
             THEN ReturnExchange(c, "noValid")
             ELSE calls' = [calls EXCEPT ![c] =
                    [@ EXCEPT !.idx = call.idx + 1,
                              !.placedTiles = convertGaddagMoveToPlacedTiles(
                                 call.moves[call.idx + 1], call.tiles, call.board)]]
  /\ UNCHANGED <<svcVars, roomVars>>
  /\ UNCHANGED <<gameVars, roomVars>>

InitStep ==
  \E p \in PromiseIds :
    \/ InitAfterLoad(p)
    \/ InitBuildSettled(p)
    \/ InitBuildTimeout(p)
    \/ InitSetSettled(p)
    \/ InitSetTimeout(p)

(***************************************************************************)
(* Input families                                                          *)
(***************************************************************************)
Verdicts == {"valid", "invalid", "throws"}

SearchTimes == {100, 2500}

IsInjective(s) == \A i, j \in 1..Len(s) : s[i] = s[j] => i = j

FullRack == <<TILE_K, TILE_A1, TILE_T, TILE_A2, TILE_BLANK>>

RackSet == {r \in SeqsUpTo(TileSet, MaxRackLen) : IsInjective(r)} \cup {FullRack}

BoardTile(letter) == MkTile("b" \o letter, letter, 1, FALSE)

BoardSet ==
  { {},
    {[row |-> 7, col |-> 8, tile |-> BoardTile("T")]},
    {[row |-> 7, col |-> 7, tile |-> BoardTile("A")],
     [row |-> 8, col |-> 7, tile |-> BoardTile("T")]} }

NoPlayerInput == [playerFound |-> FALSE, tiles |-> <<>>, board |-> {}]

GenInputs ==
  {NoPlayerInput} \cup
  {[playerFound |-> TRUE, tiles |-> r, board |-> b] : r \in RackSet, b \in BoardSet}

CandidateSet ==
  { MkMove(<<"A", "T">>, 7, 7, "H"),
    MkMove(<<"A", "A">>, 7, 7, "V"),
    MkMove(<<"T", "A", "T">>, 7, 6, "H") }

ThrowingSearch == MkSearch(<<>>, <<>>, 100, TRUE)

\* searches within the budget over every short list and verdict, searches
\* over the budget with at most one candidate
ShortSearches ==
  {ThrowingSearch} \cup
  UNION { {MkSearch(m, v, e, FALSE) :
             v \in [1..Len(m) -> Verdicts],
             e \in {t \in SearchTimes : t <= GenTimeoutMs \/ Len(m) <= 1}} :
          m \in SeqsUpTo(CandidateSet, MaxShortList) }

\* the i-th of a list of distinct one-letter candidates
RankedCandidate(i) ==
  MkMove(<<"A">>, (i - 1) \div BOARD_SIZE, (i - 1) % BOARD_SIZE, "H")

\* long lists in which at most two candidates pass validation
ValidSets(n) == {{}} \cup {{i, j} : i \in 1..n, j \in 1..n}

LongSearches ==
  UNION { {MkSearch([i \in 1..n |-> RankedCandidate(i)],
                    [i \in 1..n |-> IF i \in V THEN "valid" ELSE "invalid"],
                    100, FALSE) : V \in ValidSets(n)} :
          n \in (MaxMoves - 2)..MaxMoves }

\* concurrent calls: one rack, an empty board, a one-candidate search
ConcInputs ==
  {NoPlayerInput, [playerFound |-> TRUE, tiles |-> <<TILE_A1, TILE_T>>, board |-> {}]}

ConcSearches ==
  { ThrowingSearch,
    MkSearch(<<>>, <<>>, 100, FALSE),
    MkSearch(<<MkMove(<<"A", "T">>, 7, 7, "H")>>, <<"valid">>, 100, FALSE),
    MkSearch(<<MkMove(<<"A", "T">>, 7, 7, "H")>>, <<"invalid">>, 100, FALSE) }

(***************************************************************************)
(* Spec: concurrent generateMove calls on one service                      *)
(***************************************************************************)
Init == InitWith(Sources)

\* the steps of a generateMove call after the call itself
GenRun(c, searches) ==
  \/ GenInitRejected(c)
  \/ GenInitTimeout(c)
  \/ \E search \in searches : GenInitFulfilled(c, search)
  \/ GenMovesSettled(c)
  \/ GenValidated(c)

\* generateMove called on a game state from outside GameService
DirectCall(c, input) ==
  /\ GenCall(c, input)
  /\ UNCHANGED <<gameVars, roomVars>>

GenStep(c, inputs, searches) ==
  \/ \E input \in inputs : DirectCall(c, input)
  \/ GenRun(c, searches)

Next ==
  \/ InitStep
  \/ \E c \in Callers : GenStep(c, ConcInputs, ConcSearches)

Spec == Init /\ [][Next]_vars

(***************************************************************************)
(* SpecGen: one generateMove call over the boards, racks and searches      *)
(***************************************************************************)
GenSources == {Missing, [exists |-> TRUE, content |-> <<"a", "T">>]}

InitGen == InitWith(GenSources)

\* a long list of candidates is found for the full rack on the empty board
GenLongSearch(c) ==
  /\ calls[c].tiles = FullRack
  /\ calls[c].board = {}
  /\ \E search \in LongSearches : GenInitFulfilled(c, search)

NextGen ==
  \/ InitStep
  \/ GenStep(1, GenInputs, ShortSearches)
  \/ GenLongSearch(1)

SpecGen == InitGen /\ [][NextGen]_vars

(***************************************************************************)
(* GameService: the game of a room with a human player and an AI player    *)
(***************************************************************************)
\* tiles of a full rack
TILES_PER_PLAYER == 2
\* entries of the move history after which no new move is started
MaxHistory == 2

\* initializeGame: hp: 300
StartHp == 300
\* commitMove: Math.min(300, updatedPlayer.hp + 20)
MaxHp == 300
HealPerEvocation == 20
\* the cap of the same healing in commitMoveWithoutTurnAdvancement
AutoPlayMaxHp == 200

HUMAN == "human"
AI == "ai"

\* Player of initializeGame
MkPlayer(id, isAI, tiles) ==
  [id |-> id, isAI |-> isAI, tiles |-> tiles, score |-> 0, hp |-> StartHp,
   hasEndedGame |-> FALSE, hasExtraTurn |-> FALSE, silencedTiles |-> <<>>,
   urielProtection |-> FALSE, samaelDoubleDamage |-> FALSE, intercessions |-> <<>>,
   evocations |-> <<>>]

\* drawTiles(bag, count): the first count tiles of the bag
drawTiles(bag, count) ==
  [drawnTiles |-> SubSeq(bag, 1, Min(count, Len(bag))),
   remainingBag |-> SubSeq(bag, Min(count, Len(bag)) + 1, Len(bag))]

\* initializeGame: the room players are the host and the AI, in this order;
\* tileBag is the bag left by the tile pull
initializeGame(tileBag, startingPlayerIndex) ==
  LET first == drawTiles(tileBag, TILES_PER_PLAYER)
      second == drawTiles(first.remainingBag, TILES_PER_PLAYER)
  IN  [players |-> [i \in {0, 1} |->
                      IF i = 0 THEN MkPlayer(HUMAN, FALSE, first.drawnTiles)
                               ELSE MkPlayer(AI, TRUE, second.drawnTiles)],
       currentPlayerIndex |-> startingPlayerIndex,
       turnNumber |-> 1,
       tileBag |-> second.remainingBag,
       gamePhase |-> "PLAYING",
       board |-> {},
       playersEndedGame |-> <<>>,
       moveHistory |-> <<>>]

NumPlayers(g) == Cardinality(DOMAIN g.players)

CurrentPlayer(g) == g.players[g.currentPlayerIndex]

\* gameState.players.find(p => p.id !== currentPlayer.id)
OpponentIndex(g, playerId) ==
  CHOOSE i \in DOMAIN g.players :
    /\ g.players[i].id # playerId
    /\ \A j \in DOMAIN g.players : g.players[j].id # playerId => i <= j

addMoveToHistory(g, playerId, moveType) ==
  [g EXCEPT !.moveHistory =
     Append(@, [playerId |-> playerId, moveType |-> moveType, turnNumber |-> g.turnNumber])]

reduceIntercessionCooldowns(g) ==
  [g EXCEPT !.players =
     [i \in DOMAIN g.players |->
        [g.players[i] EXCEPT !.intercessions =
           [k \in 1..Len(g.players[i].intercessions) |->
              [g.players[i].intercessions[k] EXCEPT
                 !.currentCooldown = Max(0, g.players[i].intercessions[k].currentCooldown - 1)]]]]]

RECURSIVE SumValues(_)
SumValues(tiles) ==
  IF tiles = <<>> THEN 0 ELSE Head(tiles).value + SumValues(Tail(tiles))

checkGameEnd(g) ==
  IF Len(g.playersEndedGame) = NumPlayers(g)
    THEN [g EXCEPT !.players =
               [i \in DOMAIN g.players |->
                  [g.players[i] EXCEPT !.score = @ - SumValues(g.players[i].tiles)]],
            !.gamePhase = "FINISHED"]
    ELSE g

\* the loop of nextTurn that skips the players who have ended their game
RECURSIVE SkipEnded(_, _, _)
SkipEnded(g, nextPlayerIndex, attempts) ==
  IF g.players[nextPlayerIndex].hasEndedGame /\ attempts < NumPlayers(g)
    THEN SkipEnded(g, (nextPlayerIndex + 1) % NumPlayers(g), attempts + 1)
    ELSE [nextPlayerIndex |-> nextPlayerIndex, attempts |-> attempts]

\* nextTurn: the new game state, and whether checkAndExecuteAITurn is called
nextTurn(g) ==
  LET cur == g.currentPlayerIndex
  IN  IF g.players[cur].hasExtraTurn
        THEN [g |-> reduceIntercessionCooldowns(
                      [g EXCEPT !.players[cur].silencedTiles = <<>>,
                                !.players[cur].hasExtraTurn = FALSE]),
              check |-> FALSE]
        ELSE
          LET clearedState == [g EXCEPT !.players[cur].silencedTiles = <<>>]
              reduced == reduceIntercessionCooldowns(clearedState)
              skip == SkipEnded(clearedState, (cur + 1) % NumPlayers(g), 0)
          IN  IF skip.attempts >= NumPlayers(g)
                THEN [g |-> checkGameEnd(reduced), check |-> FALSE]
                ELSE [g |-> [reduced EXCEPT
                               !.currentPlayerIndex = skip.nextPlayerIndex,
                               !.turnNumber = IF skip.nextPlayerIndex < cur THEN @ + 1 ELSE @],
                      check |-> TRUE]

\* the outcome of an operation on the game: its result, the game and the
\* pending tiles it leaves, and whether it called checkAndExecuteAITurn
Outcome(success, g, pending, check) ==
  [success |-> success, g |-> g, pending |-> pending, check |-> check]

\* passTurn without the check of the current player
passTurnOfAnyPlayer(g, pending, playerId) ==
  LET next == nextTurn(addMoveToHistory(g, playerId, "PASS"))
  IN  Outcome(TRUE, next.g, <<>>, next.check)

passTurn(g, pending, playerId) ==
  IF CurrentPlayer(g).id # playerId \/ CurrentPlayer(g).hasEndedGame
    THEN Outcome(FALSE, g, pending, FALSE)
    ELSE LET next == nextTurn(addMoveToHistory(g, playerId, "PASS"))
         IN  Outcome(TRUE, next.g, <<>>, next.check)

TileIds(tiles) == {tiles[i].id : i \in 1..Len(tiles)}

\* exchangeTiles up to the shuffle: the request is rejected
ExchangeRejected(g, playerId, tileIds) ==
  \/ CurrentPlayer(g).id # playerId
  \/ CurrentPlayer(g).hasEndedGame
  \/ Len(tileIds) = 0
  \/ ~(Range(tileIds) \subseteq TileIds(CurrentPlayer(g).tiles))
  \/ ~IsInjective(tileIds)

\* const newBag = [...gameState.tileBag, ...tilesToExchange]
ExchangeNewBag(g, tileIds) ==
  g.tileBag \o SelectSeq(CurrentPlayer(g).tiles, LAMBDA t : t.id \in Range(tileIds))

\* the orders the shuffle can leave the bag in
Shuffles(bag) ==
  {[i \in 1..Len(bag) |-> bag[f[i]]] :
     f \in {h \in [1..Len(bag) -> 1..Len(bag)] : \A i, j \in 1..Len(bag) : h[i] = h[j] => i = j}}

\* mutant: an exchange that does not end the turn
exchangeTilesKeepingTurn(g, pending, playerId, tileIds, shuffled) ==
  IF ExchangeRejected(g, playerId, tileIds)
    THEN Outcome(FALSE, g, pending, FALSE)
    ELSE
      LET cur == g.currentPlayerIndex
          remainingTiles == SelectSeq(g.players[cur].tiles, LAMBDA t : t.id \notin Range(tileIds))
          draw == drawTiles(shuffled, Min(Len(tileIds), Len(shuffled)))
          updatedGameState == [g EXCEPT !.players[cur].tiles = remainingTiles \o draw.drawnTiles,
                                        !.tileBag = draw.remainingBag]
      IN  Outcome(TRUE, addMoveToHistory(updatedGameState, playerId, "EXCHANGE"), <<>>, FALSE)

\* exchangeTiles; shuffled is newBag after the shuffle
exchangeTiles(g, pending, playerId, tileIds, shuffled) ==
  IF ExchangeRejected(g, playerId, tileIds)
    THEN Outcome(FALSE, g, pending, FALSE)
    ELSE
      LET cur == g.currentPlayerIndex
          remainingTiles == SelectSeq(g.players[cur].tiles, LAMBDA t : t.id \notin Range(tileIds))
          draw == drawTiles(shuffled, Min(Len(tileIds), Len(shuffled)))
          updatedGameState == [g EXCEPT !.players[cur].tiles = remainingTiles \o draw.drawnTiles,
                                        !.tileBag = draw.remainingBag]
          next == nextTurn(addMoveToHistory(updatedGameState, playerId, "EXCHANGE"))
      IN  Outcome(TRUE, next.g, <<>>, next.check)

\* endGame
endGame(g, pending, playerId) ==
  IF \E i \in 1..Len(g.playersEndedGame) : g.playersEndedGame[i] = playerId
    THEN Outcome(FALSE, g, pending, FALSE)
    ELSE
      LET updatedGameState ==
            [g EXCEPT !.players = [i \in DOMAIN g.players |->
                                     IF g.players[i].id = playerId
                                       THEN [g.players[i] EXCEPT !.hasEndedGame = TRUE]
                                       ELSE g.players[i]],
                      !.playersEndedGame = Append(@, playerId)]
          checked == checkGameEnd(updatedGameState)
      IN  IF CurrentPlayer(g).id = playerId
            THEN LET next == nextTurn(checked)
                 IN  Outcome(TRUE, next.g, <<>>, next.check)
            ELSE Outcome(TRUE, checked, <<>>, FALSE)

\* validateTileOwnership for a tile that is not a power-up tile
validateTileOwnership(player, tile) ==
  IF tile.isBlank \/ tile.chosenLetter # Null
    THEN \E i \in 1..Len(player.tiles) :
           player.tiles[i].id = tile.id /\ player.tiles[i].isBlank
    ELSE \E i \in 1..Len(player.tiles) :
           /\ player.tiles[i].id = tile.id
           /\ player.tiles[i].letter = tile.letter
           /\ player.tiles[i].value = tile.value
           /\ player.tiles[i].isBlank = tile.isBlank

validateAllPendingTilesOwnership(player, pending) ==
  \A i \in 1..Len(pending) : validateTileOwnership(player, pending[i].tile)

\* commitMove up to the await of moveManager.executeMove: the early returns
CommitRejected(g, pending, playerId) ==
  \/ CurrentPlayer(g).id # playerId
  \/ Len(pending) = 0
  \/ ~validateAllPendingTilesOwnership(CurrentPlayer(g), pending)

\* what moveManager.executeMove answers
MkMoveResult(throws, isValid, totalScore, collectedPowerUps, skipTurnAdvancement) ==
  [throws |-> throws, isValid |-> isValid, totalScore |-> totalScore,
   collectedPowerUps |-> collectedPowerUps, skipTurnAdvancement |-> skipTurnAdvancement]

\* the evocations a player holds after collecting those of a move: the AI
\* is healed instead
RECURSIVE CollectPowerUps(_, _, _)
CollectPowerUps(player, powerUps, cap) ==
  IF powerUps = <<>> THEN player
  ELSE CollectPowerUps(
         IF player.isAI
           THEN [player EXCEPT !.hp = Min(cap, @ + HealPerEvocation)]
           ELSE [player EXCEPT !.evocations = Append(@, Head(powerUps))],
         Tail(powerUps), cap)

\* tile: {...placedTile.tile, placedByPlayerId: currentPlayer.id}
StampTile(tile, playerId) ==
  [id |-> tile.id, letter |-> tile.letter, value |-> tile.value, isBlank |-> tile.isBlank,
   chosenLetter |-> tile.chosenLetter, placedByPlayerId |-> playerId]

\* moveManager.commitMove: the stamped tiles are put on the board
BoardWith(board, placedTiles, playerId) ==
  board \cup {[row |-> placedTiles[i].row, col |-> placedTiles[i].col,
               tile |-> StampTile(placedTiles[i].tile, playerId)] :
              i \in 1..Len(placedTiles)}

\* commitMove after the await, for a valid move: gs is the game state read
\* before the await
commitMoveApply(gs, pending, moveResult) ==
  LET cur == gs.currentPlayerIndex
      currentPlayer == gs.players[cur]
      opp == OpponentIndex(gs, currentPlayer.id)
      opponent == gs.players[opp]
      remainingTiles == WithoutPlaced(currentPlayer.tiles, pending)
      tilesNeeded == TILES_PER_PLAYER - Len(remainingTiles)
      draw == drawTiles(gs.tileBag, Min(tilesNeeded, Len(gs.tileBag)))
      baseDamage == moveResult.totalScore
      doubled == IF currentPlayer.samaelDoubleDamage THEN baseDamage * 2 ELSE baseDamage
      damageDealt == IF opponent.urielProtection THEN doubled \div 2 ELSE doubled
      updatedPlayer ==
        CollectPowerUps([currentPlayer EXCEPT !.tiles = remainingTiles \o draw.drawnTiles,
                                              !.score = @ + damageDealt,
                                              !.samaelDoubleDamage = FALSE],
                        moveResult.collectedPowerUps,
                        IF moveResult.skipTurnAdvancement THEN AutoPlayMaxHp ELSE MaxHp)
      updatedOpponent ==
        IF damageDealt > 0
          THEN [opponent EXCEPT !.hp = Max(0, @ - damageDealt), !.urielProtection = FALSE]
          ELSE opponent
      updatedGameState ==
        [gs EXCEPT !.board = BoardWith(gs.board, pending, currentPlayer.id),
                   !.players = [i \in DOMAIN gs.players |->
                                  IF i = cur THEN updatedPlayer
                                  ELSE IF i = opp THEN updatedOpponent
                                  ELSE gs.players[i]],
                   !.tileBag = draw.remainingBag]
  IN  IF updatedOpponent.hp <= 0
        THEN Outcome(TRUE,
                     addMoveToHistory([updatedGameState EXCEPT !.gamePhase = "FINISHED"],
                                      currentPlayer.id, "WORD"),
                     <<>>, FALSE)
        ELSE LET recorded == addMoveToHistory(updatedGameState, currentPlayer.id, "WORD")
             IN  IF moveResult.skipTurnAdvancement
                   THEN Outcome(TRUE, recorded, <<>>, FALSE)
                   ELSE LET next == nextTurn(recorded)
                        IN  Outcome(TRUE, next.g, <<>>, next.check)

(***************************************************************************)
(* checkAndExecuteAITurn and executeAIMove                                 *)
(***************************************************************************)
NeedsAITurn(g) == CurrentPlayer(g).isAI /\ ~CurrentPlayer(g).hasEndedGame

FreeJobs(js) == {d \in Callers : js[d].pc = "free"}

\* a timer cannot be set when every callback of the model is in use
TimerAvailable(js, g) == NeedsAITurn(g) => FreeJobs(js) # {}

\* checkAndExecuteAITurn: setTimeout for the AI player whose turn it is
checkAndExecuteAITurn(js, g) ==
  IF NeedsAITurn(g)
    THEN LET d == CHOOSE d \in FreeJobs(js) : \A e \in FreeJobs(js) : d <= e
         IN  [js EXCEPT ![d] = [FreeJob EXCEPT !.pc = "scheduled",
                                               !.player = CurrentPlayer(g).id]]
    ELSE js

\* the timer callback once executeAIMove has resolved with out: a failed
\* move is followed by passTurn for the player the timer was set for, and
\* the 500 ms timer of the next check is set
AfterAIMove(c, out, observed) ==
  LET final == IF out.success THEN out
               ELSE passTurn(out.g, out.pending, jobs[c].player)
      waiting == [jobs EXCEPT ![c] = [@ EXCEPT !.pc = "recheck", !.gs = NoGame,
                                               !.observed = observed]]
  IN  /\ game' = final.g
      /\ pendingTiles' = final.pending
      /\ final.check => TimerAvailable(waiting, final.g)
      /\ jobs' = IF final.check THEN checkAndExecuteAITurn(waiting, final.g) ELSE waiting

\* the timer fires: executeAIMove up to the await in generateMove
executeAIMove(c) ==
  /\ jobs[c].pc = "scheduled"
  /\ IF ~CurrentPlayer(game).isAI \/ CurrentPlayer(game).hasEndedGame
       THEN /\ AfterAIMove(c, Outcome(FALSE, game, pendingTiles, FALSE), "refused")
            /\ UNCHANGED <<svcVars, calls, roomVars>>
       ELSE /\ GenCall(c, [playerFound |-> TRUE,
                           tiles |-> CurrentPlayer(game).tiles,
                           board |-> game.board])
            /\ jobs' = [jobs EXCEPT ![c] = [@ EXCEPT !.pc = "generating",
                                                     !.mover = CurrentPlayer(game).id]]
            /\ UNCHANGED <<game, pendingTiles>>

JobFire(c) ==
  /\ Len(game.moveHistory) < MaxHistory
  /\ executeAIMove(c)

\* generateMove has settled: executeAIMove applies the move, or passes if
\* generateMove threw
\* moveManager.executeMove refuses a move that uses a tile which is silenced
\* for the player it is given
executeMoveRefuses(player, placedTiles) ==
  \E i \in 1..Len(placedTiles) : placedTiles[i].tile.id \in Range(player.silencedTiles)

JobMoveReady(c) ==
  /\ jobs[c].pc = "generating"
  /\ calls[c].pc \in {"returned", "threw"}
  /\ LET aiMove == calls[c].result
         mover == jobs[c].mover
     IN  IF calls[c].pc = "threw"
           THEN AfterAIMove(c, passTurn(game, pendingTiles, mover), "error")
         ELSE IF aiMove.type = "WORD" /\ Len(aiMove.tiles) > 0
           THEN IF CommitRejected(game, aiMove.tiles, mover)
                  THEN AfterAIMove(c, Outcome(FALSE, game, <<>>, FALSE), "move")
                  ELSE /\ jobs' = [jobs EXCEPT ![c] = [@ EXCEPT !.pc = "committing",
                                                                !.gs = game,
                                                                !.observed = "move"]]
                       /\ pendingTiles' = aiMove.tiles
                       /\ game' = game
         ELSE IF aiMove.type = "EXCHANGE" /\ Len(aiMove.exchangeTileIds) > 0
           THEN \E shuffled \in Shuffles(ExchangeNewBag(game, aiMove.exchangeTileIds)) :
                  AfterAIMove(c, exchangeTiles(game, pendingTiles, mover,
                                               aiMove.exchangeTileIds, shuffled), "move")
         ELSE AfterAIMove(c, passTurn(game, pendingTiles, mover), "move")
  /\ UNCHANGED <<svcVars, calls, roomVars>>

\* moveManager.executeMove has settled: the rest of commitMove,
\* executeAIWordMove and executeAIMove
JobCommitDone(c, moveResult) ==
  /\ jobs[c].pc = "committing"
  /\ moveResult.isValid => ~executeMoveRefuses(CurrentPlayer(jobs[c].gs), calls[c].result.tiles)
  /\ IF moveResult.throws
       THEN AfterAIMove(c, passTurn(game, pendingTiles, jobs[c].mover), "move")
       ELSE IF moveResult.isValid
         THEN AfterAIMove(c, commitMoveApply(jobs[c].gs, calls[c].result.tiles, moveResult), "move")
         ELSE AfterAIMove(c, Outcome(FALSE, game, <<>>, FALSE), "move")
  /\ UNCHANGED <<svcVars, calls, roomVars>>

\* the 500 ms timer fires: checkAndExecuteAITurn
JobRecheck(c) ==
  /\ jobs[c].pc = "recheck"
  /\ jobs' = checkAndExecuteAITurn([jobs EXCEPT ![c] = FreeJob], game)
  /\ calls' = [calls EXCEPT ![c] = IdleCall]
  /\ UNCHANGED <<svcVars, game, pendingTiles, roomVars>>

(***************************************************************************)
(* The requests of the human player                                        *)
(***************************************************************************)
\* pass-turn: passTurn, then the 500 ms timer of checkAndExecuteAITurn
HumanPassTurn ==
  /\ Len(game.moveHistory) < MaxHistory
  /\ LET out == passTurn(game, pendingTiles, HUMAN)
         d == CHOOSE d \in FreeJobs(jobs) : \A e \in FreeJobs(jobs) : d <= e
         waiting == [jobs EXCEPT ![d] = [FreeJob EXCEPT !.pc = "recheck"]]
     IN  /\ out.success
         /\ FreeJobs(jobs) # {}
         /\ out.check => TimerAvailable(waiting, out.g)
         /\ game' = out.g
         /\ pendingTiles' = out.pending
         /\ jobs' = IF out.check THEN checkAndExecuteAITurn(waiting, out.g) ELSE waiting
  /\ UNCHANGED <<svcVars, calls, roomVars>>

\* end-game: endGame
HumanEndGame ==
  /\ Len(game.moveHistory) < MaxHistory
  /\ LET out == endGame(game, pendingTiles, HUMAN)
     IN  /\ out.success
         /\ out.check => TimerAvailable(jobs, out.g)
         /\ game' = out.g
         /\ pendingTiles' = out.pending
         /\ jobs' = IF out.check THEN checkAndExecuteAITurn(jobs, out.g) ELSE jobs
  /\ UNCHANGED <<svcVars, calls, roomVars>>

(***************************************************************************)
(* SpecGame: a started game whose AI turns run on the service              *)
(***************************************************************************)
GameSources == {Missing, [exists |-> TRUE, content |-> <<"a", "T">>]}

\* the searches of the AI turns: no candidate, or one that validateMove
\* accepts or refuses
GameSearches ==
  { MkSearch(<<>>, <<>>, 100, FALSE),
    MkSearch(<<MkMove(<<"A", "T">>, 7, 7, "H")>>, <<"valid">>, 100, FALSE),
    MkSearch(<<MkMove(<<"A", "T">>, 7, 7, "H")>>, <<"invalid">>, 100, FALSE) }

\* the bag after the tile pull
InitialBags == {FullRack}

EVOCATION == "evocation"

\* executeMove throws, refuses the move, or accepts it: without damage and
\* with an evocation collected, with some damage, with all the hp as damage
MoveResults ==
  { MkMoveResult(TRUE, FALSE, 0, <<>>, FALSE),
    MkMoveResult(FALSE, FALSE, 0, <<>>, FALSE),
    MkMoveResult(FALSE, TRUE, 0, <<EVOCATION>>, FALSE),
    MkMoveResult(FALSE, TRUE, HealPerEvocation, <<>>, FALSE),
    MkMoveResult(FALSE, TRUE, StartHp, <<>>, FALSE) }

\* after start-game: initializeGame has called checkAndExecuteAITurn, and
\* so has the handler of the request
InitGame ==
  /\ ServiceInit(GameSources)
  /\ NoRooms
  /\ \E tileBag \in InitialBags, startingPlayerIndex \in {0, 1} :
       /\ game = initializeGame(tileBag, startingPlayerIndex)
       /\ jobs = checkAndExecuteAITurn(
                   checkAndExecuteAITurn([c \in Callers |-> FreeJob], game), game)
  /\ pendingTiles = <<>>

NextGame ==
  \/ InitStep
  \/ \E c \in Callers : GenRun(c, GameSearches)
  \/ \E c \in Callers : JobFire(c)
  \/ \E c \in Callers : JobMoveReady(c)
  \/ \E c \in Callers, moveResult \in MoveResults : JobCommitDone(c, moveResult)
  \/ \E c \in Callers : JobRecheck(c)
  \/ HumanPassTurn
  \/ HumanEndGame

SpecGame == InitGame /\ [][NextGame]_vars

(***************************************************************************)
(* convertToGaddagBoard: the Board of gaddag/board filled from the game    *)
(* board                                                                   *)
(***************************************************************************)
\* new Board(this.dictionary): no tile placed; cells maps the occupied
\* positions <<row, col>> to their letter codes
NewBoard(dict) == [cells |-> <<>>, dictionary |-> dict.words]

\* the tile of gameBoard[row][col]
TileAt(gameBoard, row, col) ==
  (CHOOSE cell \in gameBoard : cell.row = row /\ cell.col = col).tile

\* cell.tile.letter.toUpperCase().charCodeAt(0): the code stands for the
\* uppercased letter
LetterCode(tile) == ToUpperChar(tile.letter)

\* the double loop over rows and columns: the occupied cells in row-major
\* order
RECURSIVE RowMajor(_)
RowMajor(cells) ==
  IF cells = {} THEN <<>>
  ELSE LET first == CHOOSE p \in cells :
                      \A q \in cells : p.row * BOARD_SIZE + p.col <= q.row * BOARD_SIZE + q.col
       IN  <<first>> \o RowMajor(cells \ {first})

existingTiles(gameBoard) ==
  LET ordered == RowMajor(gameBoard)
  IN  [i \in 1..Len(ordered) |->
         [row |-> ordered[i].row, col |-> ordered[i].col, code |-> LetterCode(ordered[i].tile)]]

DirStep(direction) == IF direction = "H" THEN <<0, 1>> ELSE <<1, 0>>

\* findWordFromTile: going backwards to the start of the word
RECURSIVE WordStart(_, _, _, _)
WordStart(gameBoard, row, col, direction) ==
  LET prevRow == row - DirStep(direction)[1]
      prevCol == col - DirStep(direction)[2]
  IN  IF InBoard(prevRow, prevCol) /\ HasTile(gameBoard, prevRow, prevCol)
        THEN WordStart(gameBoard, prevRow, prevCol, direction)
        ELSE <<row, col>>

\* findWordFromTile: collecting the word going forward
RECURSIVE CollectWord(_, _, _, _)
CollectWord(gameBoard, row, col, direction) ==
  IF InBoard(row, col) /\ HasTile(gameBoard, row, col)
    THEN <<[row |-> row, col |-> col, code |-> LetterCode(TileAt(gameBoard, row, col))]>>
         \o CollectWord(gameBoard, row + DirStep(direction)[1],
                        col + DirStep(direction)[2], direction)
    ELSE <<>>

findWordFromTile(startTile, direction, gameBoard) ==
  LET start == WordStart(gameBoard, startTile.row, startTile.col, direction)
  IN  CollectWord(gameBoard, start[1], start[2], direction)

\* mutant: the group starts at the last tile of the word
MkWordGroupFromLast(word, direction) ==
  [startRow |-> word[Len(word)].row, startCol |-> word[Len(word)].col,
   direction |-> direction, tiles |-> word]

MkWordGroup(word, direction) ==
  [startRow |-> word[1].row, startCol |-> word[1].col, direction |-> direction,
   tiles |-> word]

\* groupTilesIntoWords: the loop over the tiles; processedTiles holds the
\* positions of the tiles already in a group
RECURSIVE GroupFrom(_, _, _)
GroupFrom(tiles, gameBoard, processedTiles) ==
  IF tiles = <<>> THEN <<>>
  ELSE
    LET tile == Head(tiles)
        horizontalWord == findWordFromTile(tile, "H", gameBoard)
        verticalWord == findWordFromTile(tile, "V", gameBoard)
        positions(word) == {<<word[i].row, word[i].col>> : i \in 1..Len(word)}
    IN  IF <<tile.row, tile.col>> \in processedTiles
          THEN GroupFrom(Tail(tiles), gameBoard, processedTiles)
        ELSE IF Len(horizontalWord) > 1
          THEN <<MkWordGroup(horizontalWord, "H")>>
               \o GroupFrom(Tail(tiles), gameBoard,
                            processedTiles \cup positions(horizontalWord))
        ELSE IF Len(verticalWord) > 1
          THEN <<MkWordGroup(verticalWord, "V")>>
               \o GroupFrom(Tail(tiles), gameBoard,
                            processedTiles \cup positions(verticalWord))
        ELSE <<MkWordGroup(<<tile>>, "H")>>
             \o GroupFrom(Tail(tiles), gameBoard,
                          processedTiles \cup {<<tile.row, tile.col>>})

groupTilesIntoWords(tiles, gameBoard) == GroupFrom(tiles, gameBoard, {})

\* board.place(startRow, startCol, direction, codes): the codes go on
\* consecutive cells from the start along the direction
place(board, startRow, startCol, direction, codes) ==
  LET at(i) == <<startRow + (i - 1) * DirStep(direction)[1],
                 startCol + (i - 1) * DirStep(direction)[2]>>
      placed == {at(i) : i \in 1..Len(codes)}
  IN  [board EXCEPT !.cells =
         [p \in (DOMAIN board.cells) \cup placed |->
            IF p \in placed
              THEN codes[CHOOSE i \in 1..Len(codes) : at(i) = p]
              ELSE board.cells[p]]]

\* mutant: only the first code of every word group is placed
RECURSIVE PlaceFirstCodes(_, _)
PlaceFirstCodes(board, wordGroups) ==
  IF wordGroups = <<>> THEN board
  ELSE LET wordGroup == Head(wordGroups)
       IN  PlaceFirstCodes(
             IF Len(wordGroup.tiles) > 0
               THEN place(board, wordGroup.startRow, wordGroup.startCol,
                          wordGroup.direction, <<wordGroup.tiles[1].code>>)
               ELSE board,
             Tail(wordGroups))

\* the loop over the word groups
RECURSIVE PlaceGroups(_, _)
PlaceGroups(board, wordGroups) ==
  IF wordGroups = <<>> THEN board
  ELSE LET wordGroup == Head(wordGroups)
       IN  PlaceGroups(
             IF Len(wordGroup.tiles) > 0
               THEN place(board, wordGroup.startRow, wordGroup.startCol,
                          wordGroup.direction,
                          [i \in 1..Len(wordGroup.tiles) |-> wordGroup.tiles[i].code])
               ELSE board,
             Tail(wordGroups))

convertToGaddagBoard(gameBoard, dict) ==
  PlaceGroups(NewBoard(dict), groupTilesIntoWords(existingTiles(gameBoard), gameBoard))

(***************************************************************************)
(* The board state of gaddag/board: anchors and cross-checks               *)
(***************************************************************************)
\* the letters of the alphabet that the word sources of the model use
Alphabet == {"A", "C", "S", "T"}

\* the wildcard symbol of a rack
Wildcard == "?"

CenterCell == <<BOARD_SIZE \div 2, BOARD_SIZE \div 2>>

Occupied(board, pos) == pos \in DOMAIN board.cells

OnBoard(pos) == InBoard(pos[1], pos[2])

\* the position k cells from pos along the direction
Along(pos, direction, k) ==
  <<pos[1] + k * DirStep(direction)[1], pos[2] + k * DirStep(direction)[2]>>

Perpendicular(direction) == IF direction = "H" THEN "V" ELSE "H"

\* adjacency is row/column +-1
Neighbours(pos) ==
  {p \in {<<pos[1] - 1, pos[2]>>, <<pos[1] + 1, pos[2]>>,
          <<pos[1], pos[2] - 1>>, <<pos[1], pos[2] + 1>>} : OnBoard(p)}

\* an empty cell adjacent to an occupied cell, or the center cell of an
\* empty board
Anchors(board) ==
  IF DOMAIN board.cells = {} THEN {CenterCell}
  ELSE {p \in UNION {Neighbours(q) : q \in DOMAIN board.cells} : ~Occupied(board, p)}

\* the letters of the fixed tiles found walking from pos (excluded) along
\* the direction, step by step (+1 or -1), read in walking order
RECURSIVE TileRun(_, _, _, _)
TileRun(board, pos, direction, step) ==
  LET next == Along(pos, direction, step)
  IN  IF OnBoard(next) /\ Occupied(board, next)
        THEN <<board.cells[next]>> \o TileRun(board, next, direction, step)
        ELSE <<>>

\* the cross-check set of an empty cell for moves along the direction: the
\* letters that complete a word with the tiles on both sides of the cell
\* along the perpendicular axis; every letter when there is none
crossCheck(board, pos, direction) ==
  LET axis == Perpendicular(direction)
      prefix == Reverse(TileRun(board, pos, axis, -1))
      suffix == TileRun(board, pos, axis, 1)
  IN  IF prefix = <<>> /\ suffix = <<>> THEN Alphabet
      ELSE {L \in Alphabet : prefix \o <<L>> \o suffix \in board.dictionary}

(***************************************************************************)
(* The move generator of gaddag/generator: a backtracking search from      *)
(* every anchor along both axes                                            *)
(***************************************************************************)
IsPrefixOf(p, q) == Len(p) <= Len(q) /\ SubSeq(q, 1, Len(p)) = p

\* followTransition: the node reached by a path has a child for the code
followTransition(paths, path, code) ==
  \E q \in paths : IsPrefixOf(Append(path, code), q)

\* isTerminal: the node reached by the path is marked complete
isTerminal(paths, path) == path \in paths

\* the rack without one tile x
RemoveOne(rack, x) ==
  LET i == CHOOSE i \in 1..Len(rack) : rack[i] = x /\ \A j \in 1..(i - 1) : rack[j] # x
  IN  SubSeq(rack, 1, i - 1) \o SubSeq(rack, i + 1, Len(rack))

\* a rack tile and the letter it is played as: a letter tile as itself, the
\* wildcard as any letter
RackOptions(rack) ==
  {o \in [tile : Range(rack), letter : Alphabet] :
     o.tile = o.letter \/ o.tile = Wildcard}

\* the ways of covering the cell pos after the path: the fixed tile of an
\* occupied cell, or a rack tile that the cross-check set of the cell allows
Placements(board, paths, pos, direction, path, rack, placed) ==
  IF ~OnBoard(pos) THEN {}
  ELSE IF Occupied(board, pos)
    THEN IF followTransition(paths, path, board.cells[pos])
           THEN {[letter |-> board.cells[pos], rack |-> rack, placed |-> placed]}
           ELSE {}
    ELSE {[letter |-> o.letter,
           rack |-> RemoveOne(rack, o.tile),
           placed |-> placed \cup {[pos |-> pos, letter |-> o.letter,
                                    blank |-> o.tile = Wildcard]}] :
          o \in {o \in RackOptions(rack) :
                   /\ o.letter \in crossCheck(board, pos, direction)
                   /\ followTransition(paths, path, o.letter)}}

\* the word of a path: the reversed prefix, then the suffix
DelimiterAt(path) == CHOOSE i \in 1..Len(path) : path[i] = Delimiter

WordOf(path) ==
  Reverse(SubSeq(path, 1, DelimiterAt(path) - 1))
    \o SubSeq(path, DelimiterAt(path) + 1, Len(path))

\* the first cell of the word of a path through the anchor
StartOf(anchor, direction, path) ==
  Along(anchor, direction, 0 - (DelimiterAt(path) - 2))

\* the cells of a word
WordCells(start, direction, word) ==
  {Along(start, direction, i - 1) : i \in 1..Len(word)}

\* the legality of a candidate: a new cell is covered, and the center cell
\* on an empty board, or else a placed tile is adjacent to or overlapping
\* an existing tile
CoversNewCell(placed) == placed # {}

Touches(board, cells, placed) ==
  IF DOMAIN board.cells = {} THEN CenterCell \in cells
  ELSE \/ \E t \in placed : \E n \in Neighbours(t.pos) : Occupied(board, n)
       \/ \E p \in cells : Occupied(board, p)

(***************************************************************************)
(* The scorer                                                              *)
(***************************************************************************)
MULTIPLIER_LAYOUT ==
  <<
    <<"TRIPLE_WORD", Null, Null, "DOUBLE_LETTER", Null, Null, Null, "TRIPLE_WORD", Null, Null, Null, "DOUBLE_LETTER", Null, Null, "TRIPLE_WORD">>,
    <<Null, "DOUBLE_WORD", Null, Null, Null, "TRIPLE_LETTER", Null, Null, Null, "TRIPLE_LETTER", Null, Null, Null, "DOUBLE_WORD", Null>>,
    <<Null, Null, "DOUBLE_WORD", Null, Null, Null, "DOUBLE_LETTER", Null, "DOUBLE_LETTER", Null, Null, Null, "DOUBLE_WORD", Null, Null>>,
    <<"DOUBLE_LETTER", Null, Null, "DOUBLE_WORD", Null, Null, Null, "DOUBLE_LETTER", Null, Null, Null, "DOUBLE_WORD", Null, Null, "DOUBLE_LETTER">>,
    <<Null, Null, Null, Null, "DOUBLE_WORD", Null, Null, Null, Null, Null, "DOUBLE_WORD", Null, Null, Null, Null>>,
    <<Null, "TRIPLE_LETTER", Null, Null, Null, "TRIPLE_LETTER", Null, Null, Null, "TRIPLE_LETTER", Null, Null, Null, "TRIPLE_LETTER", Null>>,
    <<Null, Null, "DOUBLE_LETTER", Null, Null, Null, "DOUBLE_LETTER", Null, "DOUBLE_LETTER", Null, Null, Null, "DOUBLE_LETTER", Null, Null>>,
    <<"TRIPLE_WORD", Null, Null, "DOUBLE_LETTER", Null, Null, Null, "CENTER", Null, Null, Null, "DOUBLE_LETTER", Null, Null, "TRIPLE_WORD">>,
    <<Null, Null, "DOUBLE_LETTER", Null, Null, Null, "DOUBLE_LETTER", Null, "DOUBLE_LETTER", Null, Null, Null, "DOUBLE_LETTER", Null, Null>>,
    <<Null, "TRIPLE_LETTER", Null, Null, Null, "TRIPLE_LETTER", Null, Null, Null, "TRIPLE_LETTER", Null, Null, Null, "TRIPLE_LETTER", Null>>,
    <<Null, Null, Null, Null, "DOUBLE_WORD", Null, Null, Null, Null, Null, "DOUBLE_WORD", Null, Null, Null, Null>>,
    <<"DOUBLE_LETTER", Null, Null, "DOUBLE_WORD", Null, Null, Null, "DOUBLE_LETTER", Null, Null, Null, "DOUBLE_WORD", Null, Null, "DOUBLE_LETTER">>,
    <<Null, Null, "DOUBLE_WORD", Null, Null, Null, "DOUBLE_LETTER", Null, "DOUBLE_LETTER", Null, Null, Null, "DOUBLE_WORD", Null, Null>>,
    <<Null, "DOUBLE_WORD", Null, Null, Null, "TRIPLE_LETTER", Null, Null, Null, "TRIPLE_LETTER", Null, Null, Null, "DOUBLE_WORD", Null>>,
    <<"TRIPLE_WORD", Null, Null, "DOUBLE_LETTER", Null, Null, Null, "TRIPLE_WORD", Null, Null, Null, "DOUBLE_LETTER", Null, Null, "TRIPLE_WORD">>
  >>

\* mutant: the layout is read one column to the right
MultiplierAtNextColumn(pos) ==
  MULTIPLIER_LAYOUT[pos[1] + 1][((pos[2] + 1) % BOARD_SIZE) + 1]

MultiplierAt(pos) == MULTIPLIER_LAYOUT[pos[1] + 1][pos[2] + 1]

letterMultiplier(pos) ==
  IF MultiplierAt(pos) = "DOUBLE_LETTER" THEN 2
  ELSE IF MultiplierAt(pos) = "TRIPLE_LETTER" THEN 3
  ELSE 1

\* the center cell doubles the word
wordMultiplier(pos) ==
  IF MultiplierAt(pos) \in {"DOUBLE_WORD", "CENTER"} THEN 2
  ELSE IF MultiplierAt(pos) = "TRIPLE_WORD" THEN 3
  ELSE 1

\* the numeric value of a letter tile
LetterValue(letter) == IF letter = "C" THEN 3 ELSE 1

\* the tiles of a full rack and the bonus of a move that uses them all
RackCapacity == 7
AllTilesBonus == 50

RECURSIVE SumFn(_)
SumFn(f) ==
  IF DOMAIN f = {} THEN 0
  ELSE LET x == CHOOSE x \in DOMAIN f : TRUE
       IN  f[x] + SumFn([y \in (DOMAIN f) \ {x} |-> f[y]])

RECURSIVE ProductFn(_)
ProductFn(f) ==
  IF DOMAIN f = {} THEN 1
  ELSE LET x == CHOOSE x \in DOMAIN f : TRUE
       IN  f[x] * ProductFn([y \in (DOMAIN f) \ {x} |-> f[y]])

\* the letter on a cell once the placed tiles are on the board
NewTileAt(placed, pos) == CHOOSE t \in placed : t.pos = pos

IsNew(placed, pos) == \E t \in placed : t.pos = pos

\* the score of one word: its letters with the letter multipliers of the
\* new cells, times the word multipliers of the new cells
wordScore(board, cells, placed) ==
  LET value(pos) ==
        IF IsNew(placed, pos)
          THEN IF NewTileAt(placed, pos).blank THEN 0
               ELSE LetterValue(NewTileAt(placed, pos).letter) * letterMultiplier(pos)
          ELSE LetterValue(board.cells[pos])
      factor(pos) == IF IsNew(placed, pos) THEN wordMultiplier(pos) ELSE 1
  IN  SumFn([pos \in cells |-> value(pos)]) * ProductFn([pos \in cells |-> factor(pos)])

\* the cells of the perpendicular word that a new tile creates; a single
\* cell when the tile has no perpendicular neighbour
CrossWordCells(board, pos, direction) ==
  LET axis == Perpendicular(direction)
      before == Len(TileRun(board, pos, axis, -1))
      after == Len(TileRun(board, pos, axis, 1))
  IN  {Along(pos, axis, k) : k \in (0 - before)..after}

\* score(move, board): the primary word and the perpendicular words of the
\* new tiles
score(board, start, direction, word, placed) ==
  LET crossing == {t \in placed :
                     Cardinality(CrossWordCells(board, t.pos, direction)) > 1}
      cross(t) == wordScore(board, CrossWordCells(board, t.pos, direction), {t})
  IN  wordScore(board, WordCells(start, direction, word), placed)
        + SumFn([t \in crossing |-> cross(t)])
        + (IF Cardinality(placed) = RackCapacity THEN AllTilesBonus ELSE 0)

\* a placement found from an anchor
MkFound(board, anchor, direction, path, placed) ==
  LET word == WordOf(path)
      start == StartOf(anchor, direction, path)
  IN  [word |-> word, row |-> start[1], col |-> start[2], dir |-> direction,
       score |-> score(board, start, direction, word, placed),
       anchor |-> anchor, placed |-> placed]

\* the forward extension from the cell k cells after the anchor: a
\* candidate is recorded at a terminal node when the word ends there
RECURSIVE ExtendForward(_, _, _, _, _, _, _, _)
ExtendForward(board, paths, anchor, direction, k, path, rack, placed) ==
  LET pos == Along(anchor, direction, k)
      ends == ~(OnBoard(pos) /\ Occupied(board, pos))
      start == StartOf(anchor, direction, path)
      recorded ==
        IF /\ isTerminal(paths, path)
           /\ ends
           /\ CoversNewCell(placed)
           /\ Touches(board, WordCells(start, direction, WordOf(path)), placed)
          THEN {MkFound(board, anchor, direction, path, placed)}
          ELSE {}
  IN  recorded \cup
      UNION {ExtendForward(board, paths, anchor, direction, k + 1,
                           Append(path, o.letter), o.rack, o.placed) :
             o \in Placements(board, paths, pos, direction, path, rack, placed)}

\* the backward extension from the cell k cells before the anchor (the
\* anchor itself for k = 0): the delimiter is taken where the word starts
RECURSIVE ExtendBackward(_, _, _, _, _, _, _, _)
ExtendBackward(board, paths, anchor, direction, k, path, rack, placed) ==
  LET pos == Along(anchor, direction, 0 - k)
      starts == ~(OnBoard(pos) /\ Occupied(board, pos))
      turned ==
        IF path # <<>> /\ starts /\ followTransition(paths, path, Delimiter)
          THEN ExtendForward(board, paths, anchor, direction, 1,
                             Append(path, Delimiter), rack, placed)
          ELSE {}
  IN  turned \cup
      UNION {ExtendBackward(board, paths, anchor, direction, k + 1,
                            Append(path, o.letter), o.rack, o.placed) :
             o \in Placements(board, paths, pos, direction, path, rack, placed)}

\* the placements found from every anchor along both axes
FoundMoves(board, paths, rack) ==
  UNION {ExtendBackward(board, paths, anchor, direction, 0, <<>>, rack, {}) :
         anchor \in Anchors(board), direction \in {"H", "V"}}

SameMove(a, b) ==
  a.word = b.word /\ a.row = b.row /\ a.col = b.col /\ a.dir = b.dir

\* the ranking: higher scores first
RECURSIVE RankFrom(_)
RankFrom(found) ==
  IF found = {} THEN <<>>
  ELSE LET best == CHOOSE m \in found : \A n \in found : m.score >= n.score
       IN  <<best>> \o RankFrom(found \ {best})

RECURSIVE DedupFrom(_, _)
DedupFrom(ranked, kept) ==
  IF ranked = <<>> THEN kept
  ELSE DedupFrom(Tail(ranked),
                 IF \E j \in 1..Len(kept) : SameMove(kept[j], Head(ranked))
                   THEN kept
                   ELSE Append(kept, Head(ranked)))

\* mutant: every found placement is kept
deduplicateKeepingAll(ranked) == ranked

\* de-duplication: of the placements of the same word at the same place in
\* the same direction the first one is kept
deduplicate(ranked) == DedupFrom(ranked, <<>>)

\* Move of gaddag/generator with its score
MkScoredMove(word, row, col, dir, sc) ==
  [word |-> word, row |-> row, col |-> col, dir |-> dir, score |-> sc]

\* Board.generateMoves(rack, gaddag): the candidates sorted by score
generateMoves(board, rack, g) ==
  LET kept == deduplicate(RankFrom(FoundMoves(board, g.paths, rack)))
  IN  [i \in 1..Len(kept) |->
         MkScoredMove(kept[i].word, kept[i].row, kept[i].col, kept[i].dir,
                      kept[i].score)]

(***************************************************************************)
(* SpecEngine: AI turns whose candidates come from the move generator      *)
(***************************************************************************)
TILE_C == MkTile("t6", "C", 3, FALSE)
TILE_S == MkTile("t7", "S", 1, FALSE)

\* a word file: the words on lines of their own
RECURSIVE WordFile(_)
WordFile(words) ==
  IF words = <<>> THEN <<>>
  ELSE IF Len(words) = 1 THEN Head(words)
  ELSE Head(words) \o <<"\n">> \o WordFile(Tail(words))

CAT == <<"C", "A", "T">>
CATS == <<"C", "A", "T", "S">>

WordLists ==
  { <<CAT, <<"A", "T">>, CATS>>,
    <<<<"c", "a", "t">>, <<"A", "t">>, <<" ">>, <<"T", "A">>>>,
    <<<<"A", "T">>, <<"T", "A">>, <<"A", "S">>, CAT, CATS, <<"A", "A">>>> }

EngineSources ==
  {Missing} \cup {[exists |-> TRUE, content |-> WordFile(words)] : words \in WordLists}

\* a word on the board, placed by the human player
BoardWord(word, row, col, direction) ==
  {[row |-> Along(<<row, col>>, direction, i - 1)[1],
    col |-> Along(<<row, col>>, direction, i - 1)[2],
    tile |-> StampTile(BoardTile(word[i]), HUMAN)] : i \in 1..Len(word)}

\* the positions of the game and the rack of the AI player: the full rack
\* on the empty board, shorter racks on a board with a word
EnginePositions ==
  {[board |-> {}, tiles |-> r] :
     r \in {<<TILE_C, TILE_A1, TILE_T, TILE_S>>, <<TILE_A1, TILE_T>>, <<TILE_T, TILE_BLANK>>}}
  \cup
  {[board |-> b, tiles |-> r] :
     b \in {BoardWord(CAT, 7, 7, "H"), BoardWord(CAT, 6, 7, "V")},
     r \in {<<TILE_S>>, <<TILE_A1, TILE_T>>, <<TILE_A1, TILE_BLANK>>, <<TILE_S, TILE_A1>>}}
  \cup
  {[board |-> BoardWord(CAT, 7, 7, "H") \cup BoardWord(<<"A", "T">>, 6, 9, "V"),
    tiles |-> r] : r \in {<<TILE_S, TILE_A1>>, <<TILE_T, TILE_BLANK>>}}

\* the game at the turn of the AI player: the bag is empty
EngineGame(position) ==
  LET started == initializeGame(<<>>, 1)
      placed == [started EXCEPT
                   !.board = position.board,
                   !.players = [i \in DOMAIN started.players |->
                                  IF started.players[i].isAI
                                    THEN [started.players[i] EXCEPT !.tiles = position.tiles]
                                    ELSE started.players[i]]]
  IN  IF position.board = {} THEN placed ELSE addMoveToHistory(placed, HUMAN, "WORD")

\* what validateMove answers for the candidates of a search
EngineVerdicts(n) ==
  {[i \in 1..n |-> "valid"], [i \in 1..n |-> "invalid"],
   [i \in 1..n |-> IF i = 1 THEN "invalid" ELSE "valid"]}

\* gaddagBoard.generateMoves(rack, this.gaddag) for the call
EngineMoves(call) ==
  generateMoves(convertToGaddagBoard(call.board, dictionary),
                convertTilesToRack(call.tiles), gaddag)

\* the initialization promise fulfils: the search of the call is run
EngineSearch(c) ==
  /\ calls[c].pc = "awaitInit"
  /\ promises[calls[c].awaiting] = "fulfilled"
  /\ IF gaddag = NullGaddag \/ dictionary = NullDictionary
       THEN GenInitFulfilled(c, ThrowingSearch)
       ELSE LET moves == EngineMoves(calls[c])
            IN  \E verdicts \in EngineVerdicts(Len(moves)) :
                  GenInitFulfilled(c, MkSearch(moves, verdicts, 100, FALSE))

\* executeMove throws, refuses the move, or accepts it with some damage
EngineMoveResults ==
  { MkMoveResult(TRUE, FALSE, 0, <<>>, FALSE),
    MkMoveResult(FALSE, FALSE, 0, <<>>, FALSE),
    MkMoveResult(FALSE, TRUE, HealPerEvocation, <<>>, FALSE) }

\* commit-move of the human player with no tile placed: commitMove returns
\* 'Not your turn' or 'No tiles placed' and nothing changes
HumanCommitMove ==
  /\ game # NoGame
  /\ Len(pendingTiles) = 0
  /\ CurrentPlayer(game).id # HUMAN \/ CommitRejected(game, pendingTiles, HUMAN)
  /\ UNCHANGED vars

InitEngine ==
  /\ ServiceInit(EngineSources)
  /\ NoRooms
  /\ \E position \in EnginePositions :
       /\ game = EngineGame(position)
       /\ jobs = checkAndExecuteAITurn([c \in Callers |-> FreeJob], game)
  /\ pendingTiles = <<>>

NextEngine ==
  \/ InitStep
  \/ \E c \in Callers : GenInitRejected(c)
  \/ \E c \in Callers : GenInitTimeout(c)
  \/ \E c \in Callers : EngineSearch(c)
  \/ \E c \in Callers : GenMovesSettled(c)
  \/ \E c \in Callers : GenValidated(c)
  \/ \E c \in Callers : JobFire(c)
  \/ \E c \in Callers : JobMoveReady(c)
  \/ \E c \in Callers, moveResult \in EngineMoveResults : JobCommitDone(c, moveResult)
  \/ \E c \in Callers : JobRecheck(c)
  \/ HumanCommitMove

SpecEngine == InitEngine /\ [][NextEngine]_vars

(***************************************************************************)
(* Properties of the initialization                                        *)
(***************************************************************************)
\* the initialize() calls that got past the early return and started a build
BuildsStarted == {p \in PromiseIds : initPc[p] # "none"}

BuildInFlight(p) == initPc[p] \in {"loaded", "loadFailed", "building", "loadingSet"}

\* C1: at most one build is ever started; a caller that waits for the
\* initialization waits for the promise of that build, and a caller that
\* went on to search did so after that build was done
SingleSharedBuild ==
  /\ Cardinality(BuildsStarted) <= 1
  /\ \A c \in Callers :
       /\ calls[c].pc = "awaitInit" => calls[c].awaiting \in BuildsStarted
       /\ calls[c].searched => initPc[calls[c].awaiting] = "done"

\* two callers wait for the same build in flight
TwoCallersAwaitOneBuild ==
  \E c, d \in Callers :
    /\ c # d
    /\ calls[c].pc = "awaitInit" /\ calls[d].pc = "awaitInit"
    /\ calls[c].awaiting = calls[d].awaiting
    /\ initPc[calls[c].awaiting] = "building"

NonEmptyWords(words) == {w \in words : w # <<>>}

\* C2: a missing or empty word source never leads to a completed
\* initialization: with the initialization done, the GADDAG holds a path and
\* the dictionary holds a word
EmptySourceNeverInService ==
  \A p \in PromiseIds :
    initPc[p] = "done" =>
      /\ source.exists
      /\ gaddag.paths # {}
      /\ NonEmptyWords(dictionary.words) # {}

InitComplete == gaddag # NullGaddag /\ dictionary # NullDictionary

\* C8: once the GADDAG and the dictionary are both built, no step replaces
\* or changes either of them
BuiltDictionaryIsFrozen ==
  [][InitComplete => (gaddag' = gaddag /\ dictionary' = dictionary)]_vars

\* with the dictionary built, two calls search and validate concurrently
ConcurrentSearchesOnBuiltDictionary ==
  \E c, d \in Callers :
    /\ c # d
    /\ InitComplete
    /\ calls[c].pc = "validating"
    /\ calls[d].pc \in {"awaitMoves", "validating", "returned"}
    /\ calls[d].searched

(***************************************************************************)
(* Properties of the move selection                                        *)
(***************************************************************************)
IsFallback(move) == move.type \in {"EXCHANGE", "PASS"}

\* C5: a call whose search took longer than the budget returns a pass or an
\* exchange
SearchOverBudgetFallsBack ==
  \A c \in Callers :
    (calls[c].pc = "returned" /\ calls[c].searched /\ calls[c].elapsed > GenTimeoutMs)
      => IsFallback(calls[c].result)

\* C6: a call whose search ended within the budget with no candidate returns
\* a pass or an exchange
NoCandidateFallsBack ==
  \A c \in Callers :
    (/\ calls[c].pc = "returned"
     /\ calls[c].searched
     /\ calls[c].elapsed <= GenTimeoutMs
     /\ Len(calls[c].moves) = 0)
      => IsFallback(calls[c].result)

\* a search within the budget found nothing and the call returned
ReturnedWithNoCandidate ==
  \E c \in Callers :
    /\ calls[c].pc = "returned"
    /\ calls[c].searched
    /\ calls[c].elapsed <= GenTimeoutMs
    /\ Len(calls[c].moves) = 0
    /\ calls[c].result.type = "EXCHANGE"

\* the placement validateMove is given for candidate i, and its answer
PlacedFor(call, i) ==
  convertGaddagMoveToPlacedTiles(call.moves[i], call.tiles, call.board)

Validates(call, i) == validateMove(PlacedFor(call, i), call.verdicts[i]) = "valid"

\* the result of consuming the candidates 1..n in rank order
RankOrderResult(call, n) ==
  LET passing == {i \in 1..n : Validates(call, i)}
  IN  IF passing = {}
        THEN IsFallback(call.result)
        ELSE call.result = WordMove(PlacedFor(call, CHOOSE i \in passing : \A j \in passing : i <= j))

\* C7 as stated: the result is the first candidate of the list that
\* validates, a pass or an exchange only if none of the list validates
RankOrderOverAllCandidates ==
  \A c \in Callers :
    (calls[c].pc = "returned" /\ calls[c].searched /\ Len(calls[c].moves) > 0)
      => RankOrderResult(calls[c], Len(calls[c].moves))

\* C7 amended: the same over the first 15 candidates of the list
RankOrderOverTopMoves ==
  \A c \in Callers :
    (calls[c].pc = "returned" /\ calls[c].searched /\ Len(calls[c].moves) > 0)
      => RankOrderResult(calls[c], Min(TopMoves, Len(calls[c].moves)))

\* a word is returned after a higher-ranked candidate was rejected
WordAfterRejection ==
  \E c \in Callers :
    /\ calls[c].pc = "returned"
    /\ calls[c].result.type = "WORD"
    /\ calls[c].idx > 1

\* C9: a step of a call leaves the board and the tiles it was given as they
\* were, and a call that is past the initialization changes nothing but its
\* own record
CallLeavesGameStateAlone ==
  [][\A c \in Callers :
       /\ calls[c].pc # "idle" =>
            (calls'[c].tiles = calls[c].tiles /\ calls'[c].board = calls[c].board)
       /\ (calls[c].searched /\ calls'[c] # calls[c]) =>
            (svcVars' = svcVars /\ \A d \in Callers \ {c} : calls'[d] = calls[d])]_vars

\* a call returned a word of tiles of the rack it was given
WordOfGivenTiles ==
  \E c \in Callers :
    /\ calls[c].pc = "returned"
    /\ calls[c].result.type = "WORD"
    /\ Len(calls[c].result.tiles) = 2
    /\ Len(calls[c].tiles) = 2

PlacedIds(placedTiles) == {placedTiles[i].tile.id : i \in 1..Len(placedTiles)}

\* the tiles of the rack, or of a placement, that show the letter: a
\* blank shows the letter chosen for it
RackCopies(tiles, letter) ==
  Cardinality({i \in 1..Len(tiles) : tiles[i].letter = letter \/ tiles[i].isBlank})

PlacedCopies(placedTiles, letter) ==
  Cardinality({i \in 1..Len(placedTiles) :
    IF placedTiles[i].tile.isBlank
      THEN placedTiles[i].tile.chosenLetter = letter
      ELSE placedTiles[i].tile.letter = letter})

\* C10: in the placement under validation no tile occupies two cells, every
\* tile is a tile of the rack, and no letter is used more often than the
\* rack, blanks included, can supply it
RackUsedAsMultiset ==
  \A c \in Callers :
    calls[c].pc = "validating" =>
      LET placedTiles == calls[c].placedTiles
          tiles == calls[c].tiles
      IN  /\ Cardinality(PlacedIds(placedTiles)) = Len(placedTiles)
          /\ PlacedIds(placedTiles) \subseteq {tiles[i].id : i \in 1..Len(tiles)}
          /\ \A letter \in {"A", "T", "K"} :
               PlacedCopies(placedTiles, letter) <= RackCopies(tiles, letter)

\* a word with a repeated letter is placed from a rack with one such tile
\* and a blank
RepeatedLetterPlaced ==
  \E c \in Callers :
    /\ calls[c].pc = "validating"
    /\ calls[c].moves[calls[c].idx].word = <<"A", "A">>
    /\ Len(calls[c].placedTiles) = 2
    /\ RackCopies(calls[c].tiles, "A") = 2

(***************************************************************************)
(* Properties of the AI turn                                               *)
(***************************************************************************)
\* how a generateMove call ends when the dictionary could not be initialized
InitFailures == {"initError", "initTimeout", "noGaddag"}

StrategicExchanges(tiles) == {generateStrategicExchange(tiles, random) : random \in RandomCounts}

NextActiveIndex(g) ==
  SkipEnded(g, (g.currentPlayerIndex + 1) % NumPlayers(g), 0).nextPlayerIndex

\* the tiles of the racks and of the bag
TilesInHands(g) ==
  UNION {TileIds(g.players[i].tiles) : i \in DOMAIN g.players} \cup TileIds(g.tileBag)

LastMove(g) == g.moveHistory[Len(g.moveHistory)]

\* C4: when executeAIMove applies the move of a generateMove call that met
\* a dictionary failure, in the turn of the AI player, the step records an
\* exchange or a pass of that player, gives the turn to the next player
\* still in the game, and leaves the phase, the board, the other racks and
\* the set of tiles of the game as they were; out of the turn of that player
\* the step leaves the game as it is
InitFailureDegradesGracefully ==
  [][\A c \in Callers :
       (/\ jobs[c].pc = "generating"
        /\ calls[c].pc = "returned"
        /\ calls[c].via \in InitFailures
        /\ jobs'[c].pc = "recheck") =>
         IF CurrentPlayer(game).id = jobs[c].mover /\ ~CurrentPlayer(game).hasEndedGame
           THEN /\ Len(game'.moveHistory) = Len(game.moveHistory) + 1
                /\ LastMove(game').playerId = jobs[c].mover
                /\ LastMove(game').moveType \in {"EXCHANGE", "PASS"}
                /\ game'.currentPlayerIndex = NextActiveIndex(game)
                /\ game'.gamePhase = game.gamePhase
                /\ game'.board = game.board
                /\ pendingTiles' = <<>>
                /\ TilesInHands(game') = TilesInHands(game)
                /\ \A i \in DOMAIN game.players :
                     /\ Len(game'.players[i].tiles) = Len(game.players[i].tiles)
                     /\ i # game.currentPlayerIndex => game'.players[i] = game.players[i]
           ELSE game' = game]_vars

\* after a failed initialization the AI player has exchanged tiles and it
\* is the turn of the human player
TurnPassedAfterInitFailure ==
  \E c \in Callers :
    /\ jobs[c].pc = "recheck"
    /\ calls[c].via \in InitFailures
    /\ game.moveHistory # <<>>
    /\ LastMove(game).playerId = AI
    /\ LastMove(game).moveType = "EXCHANGE"
    /\ CurrentPlayer(game).id = HUMAN
    /\ game.gamePhase = "PLAYING"

(***************************************************************************)
(* Properties of the candidate moves                                       *)
(***************************************************************************)
\* the cells that the word of a candidate covers
MoveCells(move) == WordCells(<<move.row, move.col>>, move.dir, move.word)

\* the cells of a candidate that hold no tile on the board of the game
NewCells(move, gameBoard) ==
  {p \in MoveCells(move) : ~HasTile(gameBoard, p[1], p[2])}

\* at least one tile is placed and every placed tile goes on a cell that
\* holds no tile
OnFreeCells(placedTiles, gameBoard) ==
  /\ Len(placedTiles) > 0
  /\ \A j \in 1..Len(placedTiles) :
       ~HasTile(gameBoard, placedTiles[j].row, placedTiles[j].col)

\* C11: every candidate of a search covers a cell that held no tile and its
\* placement puts at least one rack tile on the board, on free cells only;
\* the move that commitMove carries out has at least one placed tile, on
\* free cells, and every word move of the history has left a tile of its
\* player on the board
EveryMovePlacesANewTile ==
  /\ \A c \in Callers :
       /\ calls[c].searched =>
            \A i \in 1..Len(calls[c].moves) :
              /\ NewCells(calls[c].moves[i], calls[c].board) # {}
              /\ OnFreeCells(PlacedFor(calls[c], i), calls[c].board)
       /\ jobs[c].pc = "committing" =>
            OnFreeCells(calls[c].result.tiles, jobs[c].gs.board)
  /\ \A k \in 1..Len(game.moveHistory) :
       game.moveHistory[k].moveType = "WORD" =>
         \E cell \in game.board :
           cell.tile.placedByPlayerId = game.moveHistory[k].playerId

\* a word move of the AI player is committed on a board that held tiles,
\* after a search with a candidate through one of them
NewTileCommittedNextToOldOnes ==
  \E c \in Callers :
    /\ calls[c].searched
    /\ \E i \in 1..Len(calls[c].moves) :
         NewCells(calls[c].moves[i], calls[c].board) # MoveCells(calls[c].moves[i])
    /\ Len(game.moveHistory) > 0
    /\ LastMove(game).moveType = "WORD"
    /\ LastMove(game).playerId = AI

\* the candidate has a cell that holds a tile of the board of the game or is
\* next to one
TouchesBoard(move, gameBoard) ==
  \E p \in MoveCells(move) :
    \/ HasTile(gameBoard, p[1], p[2])
    \/ \E n \in Neighbours(p) : HasTile(gameBoard, n[1], n[2])

\* C12: every candidate of a search covers the center cell when the board
\* of the game is empty, and otherwise is adjacent to or overlaps a tile of
\* the board
CandidatesAreConnected ==
  \A c \in Callers :
    calls[c].searched =>
      \A i \in 1..Len(calls[c].moves) :
        IF calls[c].board = {}
          THEN <<BOARD_SIZE \div 2, BOARD_SIZE \div 2>> \in MoveCells(calls[c].moves[i])
          ELSE TouchesBoard(calls[c].moves[i], calls[c].board)

\* a search on a board with tiles returns a candidate laid next to them
\* that covers none of them
CandidateAlongsideTiles ==
  \E c \in Callers :
    /\ calls[c].searched
    /\ calls[c].board # {}
    /\ \E i \in 1..Len(calls[c].moves) :
         /\ NewCells(calls[c].moves[i], calls[c].board) = MoveCells(calls[c].moves[i])
         /\ TouchesBoard(calls[c].moves[i], calls[c].board)

\* the letter on a cell once the candidate is on the board of the game
LetterOn(move, gameBoard, p) ==
  IF p \in MoveCells(move)
    THEN move.word[CHOOSE i \in 1..Len(move.word) :
                     Along(<<move.row, move.col>>, move.dir, i - 1) = p]
    ELSE LetterCode(TileAt(gameBoard, p[1], p[2]))

Covered(move, gameBoard, p) ==
  OnBoard(p) /\ (p \in MoveCells(move) \/ HasTile(gameBoard, p[1], p[2]))

\* the letters of the covered cells from p on, step by step (+1 or -1)
RECURSIVE LettersFrom(_, _, _, _, _)
LettersFrom(move, gameBoard, p, direction, step) ==
  IF Covered(move, gameBoard, p)
    THEN <<LetterOn(move, gameBoard, p)>>
         \o LettersFrom(move, gameBoard, Along(p, direction, step), direction, step)
    ELSE <<>>

\* the word that runs through p along the direction once the candidate is
\* on the board
FormedWord(move, gameBoard, p, direction) ==
  Reverse(LettersFrom(move, gameBoard, Along(p, direction, -1), direction, -1))
    \o LettersFrom(move, gameBoard, p, direction, 1)

\* the words of the word source, uppercased
SourceWords == NonEmptyWords(Range(ReadWords(source.content)))

\* C13: every word that a candidate of a search forms on the board of the
\* game, the primary word and the perpendicular word of more than one
\* letter through every newly covered cell, is a word of the word source
\* that the GADDAG was built from
FormedWordsAreInDictionary ==
  \A c \in Callers :
    calls[c].searched =>
      \A i \in 1..Len(calls[c].moves) :
        LET move == calls[c].moves[i]
        IN  /\ FormedWord(move, calls[c].board, <<move.row, move.col>>, move.dir)
                 \in SourceWords
            /\ \A p \in NewCells(move, calls[c].board) :
                 LET crossing == FormedWord(move, calls[c].board, p,
                                            Perpendicular(move.dir))
                 IN  Len(crossing) > 1 => crossing \in SourceWords

\* a search returns a candidate that forms two perpendicular words with
\* the tiles of the board
CandidateFormsCrossWords ==
  \E c \in Callers :
    /\ calls[c].searched
    /\ \E i \in 1..Len(calls[c].moves) :
         LET move == calls[c].moves[i]
         IN  Cardinality({p \in NewCells(move, calls[c].board) :
                            Len(FormedWord(move, calls[c].board, p,
                                           Perpendicular(move.dir))) > 1}) > 1

\* C14: the candidates of a search never hold two moves with the same
\* word, the same starting row, the same starting column and the same
\* direction
NoDuplicateCandidates ==
  \A c \in Callers :
    calls[c].searched =>
      \A i, j \in 1..Len(calls[c].moves) :
        (/\ calls[c].moves[i].word = calls[c].moves[j].word
         /\ calls[c].moves[i].row = calls[c].moves[j].row
         /\ calls[c].moves[i].col = calls[c].moves[j].col
         /\ calls[c].moves[i].dir = calls[c].moves[j].dir) => i = j

\* a search has returned candidates for a board on which the same
\* placement is found from two anchors
SamePlacementFromTwoAnchors ==
  \E c \in Callers :
    /\ calls[c].searched
    /\ Len(calls[c].moves) > 0
    /\ gaddag # NullGaddag
    /\ dictionary # NullDictionary
    /\ LET found == FoundMoves(convertToGaddagBoard(calls[c].board, dictionary),
                               gaddag.paths, convertTilesToRack(calls[c].tiles))
       IN  \E a, b \in found : a.anchor # b.anchor /\ SameMove(a, b)

\* C15: once the GADDAG is built, for every non-empty uppercased word W of
\* the word source and every split position i from 0 to the length of W,
\* the path that spells the first i letters of W backwards, then the
\* delimiter, then the rest of W, is a complete path of the GADDAG
EveryRotationIsAPath ==
  gaddag # NullGaddag =>
    \A W \in SourceWords :
      \A i \in 0..Len(W) :
        [k \in 1..(Len(W) + 1) |->
           IF k <= i THEN W[i + 1 - k]
           ELSE IF k = i + 1 THEN ">"
           ELSE W[k - 1]] \in gaddag.paths

\* the GADDAG is built from a file with lowercase words and a blank line
GaddagOfMixedCaseFile ==
  /\ gaddag # NullGaddag
  /\ <<"c", "a", "t">> \in Range(split(source.content))
  /\ <<" ">> \in Range(split(source.content))
  /\ <<"T", "A", "C", ">">> \in gaddag.paths
  /\ <<"A", "C", ">", "T">> \in gaddag.paths

\* a candidate that covers no cell
NoCandidate == [word |-> <<>>, row |-> 0, col |-> 0, dir |-> "H"]

\* the letters of the tiles of the game board next to the cell p along the
\* axis, read from p outwards
TilesBeside(gameBoard, p, axis, step) ==
  LettersFrom(NoCandidate, gameBoard, Along(p, axis, step), axis, step)

\* C16: for an empty cell with a tile next to it along an axis, the
\* cross-check set for the moves across that axis is exactly the set of
\* the letters L such that the tiles before the cell, L and the tiles after
\* the cell spell a word of the word source
CrossCheckIsExact ==
  (game # NoGame /\ dictionary # NullDictionary) =>
    \A row, col \in 0..(BOARD_SIZE - 1) :
      \A axis \in {"H", "V"} :
        LET p == <<row, col>>
            prefix == Reverse(TilesBeside(game.board, p, axis, -1))
            suffix == TilesBeside(game.board, p, axis, 1)
        IN  (~HasTile(game.board, row, col) /\ prefix \o suffix # <<>>) =>
              crossCheck(convertToGaddagBoard(game.board, dictionary), p,
                         Perpendicular(axis))
                = {L \in Alphabet : prefix \o <<L>> \o suffix \in SourceWords}

\* an empty cell between tiles and next to a tile of another word has a
\* cross-check set that allows some letters and excludes others
CrossCheckAllowsSomeLetters ==
  /\ game # NoGame
  /\ dictionary # NullDictionary
  /\ \E row, col \in 0..(BOARD_SIZE - 1) :
       /\ ~HasTile(game.board, row, col)
       /\ \E axis \in {"H", "V"} :
            LET allowed == crossCheck(convertToGaddagBoard(game.board, dictionary),
                                      <<row, col>>, Perpendicular(axis))
            IN  /\ TilesBeside(game.board, <<row, col>>, axis, -1) # <<>>
                /\ allowed # {}
                /\ allowed # Alphabet

\* the placed tiles that are blanks
BlanksOf(placedTiles) ==
  {placedTiles[k] : k \in {k \in 1..Len(placedTiles) : placedTiles[k].tile.isBlank}}

\* the score of a word made of the placed tiles only, from the values that
\* the tiles carry
CarriedScore(placedTiles) ==
  SumFn([k \in 1..Len(placedTiles) |->
           placedTiles[k].tile.value
             * letterMultiplier(<<placedTiles[k].row, placedTiles[k].col>>)])
    * ProductFn([k \in 1..Len(placedTiles) |->
                   wordMultiplier(<<placedTiles[k].row, placedTiles[k].col>>)])

\* C17: a blank scores zero whatever letter it stands for: every blank
\* among the tiles placed for a candidate, among the tiles of a move being
\* committed and among the tiles on the board carries the value 0, and the
\* score of a candidate on the empty board is the score of the values that
\* its placed tiles carry
BlanksCarryNoValue ==
  /\ \A c \in Callers :
       calls[c].searched =>
         \A i \in 1..Len(calls[c].moves) :
           /\ \A t \in BlanksOf(PlacedFor(calls[c], i)) : t.tile.value = 0
           /\ calls[c].board = {} =>
                calls[c].moves[i].score = CarriedScore(PlacedFor(calls[c], i))
  /\ \A c \in Callers :
       jobs[c].pc = "committing" =>
         \A t \in BlanksOf(calls[c].result.tiles) : t.tile.value = 0
  /\ game # NoGame =>
       \A cell \in game.board : cell.tile.isBlank => cell.tile.value = 0

\* the candidates of a search place the blank as two different letters,
\* and a blank placed by a committed move is on the board
BlankPlacedAsTwoLetters ==
  /\ \E c \in Callers :
       /\ calls[c].searched
       /\ \E i, j \in 1..Len(calls[c].moves) :
            \E t \in BlanksOf(PlacedFor(calls[c], i)) :
              \E u \in BlanksOf(PlacedFor(calls[c], j)) :
                t.tile.chosenLetter # u.tile.chosenLetter
  /\ game # NoGame
  /\ \E cell \in game.board : cell.tile.isBlank

\* the candidates of a call that spell the word
CandidatesOf(call, word) ==
  {call.moves[i] : i \in {i \in 1..Len(call.moves) : call.moves[i].word = word}}

\* the placements of a word along both axes that cover the center cell
CenterPlacements(word) ==
  {[word |-> word,
    row |-> Along(CenterCell, direction, 0 - k)[1],
    col |-> Along(CenterCell, direction, 0 - k)[2],
    dir |-> direction] : k \in 0..(Len(word) - 1), direction \in {"H", "V"}}

WithoutScore(move) ==
  [word |-> move.word, row |-> move.row, col |-> move.col, dir |-> move.dir]

\* the search on the empty board with the word file CAT, AT, CATS and the
\* rack C, A, T, S
EmptyBoardScenario(c) ==
  /\ calls[c].searched
  /\ calls[c].board = {}
  /\ SourceWords = {CAT, <<"A", "T">>, CATS}
  /\ [i \in 1..Len(calls[c].tiles) |-> calls[c].tiles[i].letter] = <<"C", "A", "T", "S">>

\* C18: on the empty board with the dictionary CAT, AT, CATS and the rack
\* C, A, T, S the search finds CAT and CATS, every placement of them that
\* covers the center cell and no other placement of them
FindsCatAndCatsOverCenter ==
  \A c \in Callers :
    EmptyBoardScenario(c) =>
      \A word \in {CAT, CATS} :
        /\ CandidatesOf(calls[c], word) # {}
        /\ {WithoutScore(m) : m \in CandidatesOf(calls[c], word)} = CenterPlacements(word)
        /\ \A m \in CandidatesOf(calls[c], word) :
             <<BOARD_SIZE \div 2, BOARD_SIZE \div 2>> \in MoveCells(m)

\* the search of the scenario has run and has candidates
EmptyBoardScenarioSearched ==
  \E c \in Callers : EmptyBoardScenario(c) /\ Len(calls[c].moves) > 0

\* C19: CATS placed across the center cell on the empty board, with the
\* letter values C=3, A=1, T=1, S=1 and no multiplier but the word double
\* of the center cell, scores 12
CatsAcrossCenterScoresTwelve ==
  \A c \in Callers :
    (calls[c].searched /\ calls[c].board = {}) =>
      \A m \in CandidatesOf(calls[c], CATS) : m.score = 12

\* a search has CATS as a candidate that ends on the center cell and as a
\* candidate that starts on it
CatsCandidatesAroundCenter ==
  \E c \in Callers :
    /\ calls[c].searched
    /\ calls[c].board = {}
    /\ \E m, n \in CandidatesOf(calls[c], CATS) :
         /\ m.dir = "H" /\ m.row = 7 /\ m.col = 4
         /\ n.dir = "V" /\ n.row = 7 /\ n.col = 7

\* the search with CAT on row 7, columns 7 to 9, the rack S and a word
\* file that holds CATS
ExtensionScenario(c) ==
  /\ calls[c].searched
  /\ {[row |-> cell.row, col |-> cell.col, letter |-> cell.tile.letter] :
        cell \in calls[c].board}
       = {[row |-> 7, col |-> 7, letter |-> "C"], [row |-> 7, col |-> 8, letter |-> "A"],
          [row |-> 7, col |-> 9, letter |-> "T"]}
  /\ [i \in 1..Len(calls[c].tiles) |-> calls[c].tiles[i].letter] = <<"S">>
  /\ CATS \in SourceWords

\* C20: with CAT on row 7, columns 7 to 9, and the rack S, the search finds
\* the move that puts S on row 7, column 10 and forms CATS, and no
\* candidate replaces a tile of the board: every candidate puts a tile on
\* a free cell and spells the letter of every tile that it runs over
FindsExtensionAndNoReplacement ==
  \A c \in Callers :
    ExtensionScenario(c) =>
      /\ \E i \in 1..Len(calls[c].moves) :
           /\ WithoutScore(calls[c].moves[i])
                = [word |-> CATS, row |-> 7, col |-> 7, dir |-> "H"]
           /\ Len(PlacedFor(calls[c], i)) = 1
           /\ PlacedFor(calls[c], i)[1].row = 7
           /\ PlacedFor(calls[c], i)[1].col = 10
           /\ PlacedFor(calls[c], i)[1].tile.letter = "S"
      /\ \A i \in 1..Len(calls[c].moves) :
           LET move == calls[c].moves[i]
           IN  /\ NewCells(move, calls[c].board) # {}
               /\ \A k \in 1..Len(move.word) :
                    LET p == Along(<<move.row, move.col>>, move.dir, k - 1)
                    IN  HasTile(calls[c].board, p[1], p[2]) =>
                          move.word[k] = TileAt(calls[c].board, p[1], p[2]).letter
               /\ \A k \in 1..Len(PlacedFor(calls[c], i)) :
                    ~HasTile(calls[c].board, PlacedFor(calls[c], i)[k].row,
                             PlacedFor(calls[c], i)[k].col)

\* the S that extends CAT is being committed
ExtensionBeingCommitted ==
  \E c \in Callers :
    /\ ExtensionScenario(c)
    /\ jobs[c].pc = "committing"
    /\ Len(calls[c].result.tiles) = 1
    /\ calls[c].result.tiles[1].row = 7
    /\ calls[c].result.tiles[1].col = 10

(***************************************************************************)
(* Rooms: DatabaseService keeps a room in PostgreSQL behind a Redis cache, *)
(* NewRoomManager serves the requests of the sockets. An action is the     *)
(* code of a request between two awaits; the requests interleave there.    *)
(***************************************************************************)
GUEST == "guest"

maxPlayers == 2

\* Date.now() of a request
Clock == {"1", "2"}

Digits == <<"0", "1", "2", "3", "4">>

MkRoomPlayer(id, name, isHost, isAI, selected) ==
  [id |-> id, name |-> name, isHost |-> isHost, isAI |-> isAI, selected |-> selected]

MkRoom(players, isStarted, intercessionSelectionStarted) ==
  [players |-> players, isStarted |-> isStarted,
   intercessionSelectionStarted |-> intercessionSelectionStarted, gameState |-> isStarted]

PlayerIds(room) == {room.players[i].id : i \in 1..Len(room.players)}

\* room.players.find(p => p.id === playerId)
FindPlayer(room, playerId) ==
  IF playerId \in PlayerIds(room)
    THEN LET i == CHOOSE i \in 1..Len(room.players) :
                    /\ room.players[i].id = playerId
                    /\ \A j \in 1..(i - 1) : room.players[j].id # playerId
         IN  room.players[i]
    ELSE MkRoomPlayer(Null, Null, FALSE, FALSE, FALSE)

\* players.every(p => p.isAI || p.selectedIntercessions.length > 0)
allPlayersSelected(room) ==
  \A i \in 1..Len(room.players) : room.players[i].isAI \/ room.players[i].selected

\* the writes that have completed in rs: addPlayerToRoom has resolved for
\* the players, updateRoom has resolved with isStarted
CompletedWrites(rs) ==
  [players |-> {rs[w].newPlayer.id :
                  w \in {w \in Requests : /\ rs[w].wrote = "player"
                                          /\ rs[w].pc \in {"read2", "returned"}}},
   isStarted |-> \E w \in Requests : rs[w].wrote = "started" /\ rs[w].pc = "returned"]

\* the room includes the writes
Includes(room, writes) ==
  /\ writes.players \subseteq PlayerIds(room)
  /\ writes.isStarted => room.isStarted

\* a call of getRoomById by request r, which goes on at pc when it resolves
AwaitGetRoomById(rs, r, pc) ==
  [rs EXCEPT ![r].pc = pc, ![r].getPc = "redisGet", ![r].began = CompletedWrites(rs)]

Returned(rs, r, result) == [rs EXCEPT ![r].pc = "returned", ![r].result = result]

\* initializeGame for the players of a room
initializeRoomGame(roomPlayers, tileBag, startingPlayerIndex) ==
  LET bagFor(i) == SubSeq(tileBag, Min(i * TILES_PER_PLAYER, Len(tileBag)) + 1, Len(tileBag))
      dealt(i) == drawTiles(bagFor(i), TILES_PER_PLAYER)
  IN  [initializeGame(tileBag, startingPlayerIndex) EXCEPT
         !.players = [i \in 0..(Len(roomPlayers) - 1) |->
                        MkPlayer(roomPlayers[i + 1].id, roomPlayers[i + 1].isAI,
                                 dealt(i).drawnTiles)],
         !.tileBag = dealt(Len(roomPlayers) - 1).remainingBag]

\* a socket sends a request: each operation of NewRoomManager begins with a
\* read of the room (getRoomByCode finds the id under the code key)
RoomRequest(r, op, caller) ==
  /\ reqs[r].pc = "idle"
  /\ reqs' = AwaitGetRoomById(
               [reqs EXCEPT ![r] = [IdleRequest EXCEPT !.op = op, !.caller = caller]],
               r, "read1")
  /\ UNCHANGED <<pgRoom, redisRoom, svcVars, calls, gameVars>>

\* getRoomById: redis.get; a cached room is returned as it is
getRoomByIdCached(r) ==
  /\ reqs[r].getPc = "redisGet"
  /\ reqs' = IF redisRoom # NoRoom
               THEN [reqs EXCEPT ![r].getPc = "done", ![r].got = redisRoom]
               ELSE [reqs EXCEPT ![r].getPc = "pgQuery"]
  /\ UNCHANGED <<pgRoom, redisRoom, svcVars, calls, gameVars>>

\* getRoomById: the SELECT of the room with its players
getRoomByIdQuery(r) ==
  /\ reqs[r].getPc = "pgQuery"
  /\ reqs' = [reqs EXCEPT ![r].getPc = "redisSetex", ![r].got = pgRoom]
  /\ UNCHANGED <<pgRoom, redisRoom, svcVars, calls, gameVars>>

\* getRoomById: redis.setex of the room that was read
getRoomByIdSetex(r) ==
  /\ reqs[r].getPc = "redisSetex"
  /\ redisRoom' = reqs[r].got
  /\ reqs' = [reqs EXCEPT ![r].getPc = "done"]
  /\ UNCHANGED <<pgRoom, svcVars, calls, gameVars>>

Resolved(r, op, pc) ==
  /\ reqs[r].op = op
  /\ reqs[r].pc = pc
  /\ reqs[r].getPc = "done"

\* a read of the room for a socket
getRoomReturn(r) ==
  /\ Resolved(r, "getRoom", "read1")
  /\ reqs' = Returned(reqs, r, "ok")
  /\ UNCHANGED <<pgRoom, redisRoom, svcVars, calls, gameVars>>

\* joinRoom from the room it has read to the call of addPlayerToRoom
joinRoom(r, now) ==
  /\ Resolved(r, "joinRoom", "read1")
  /\ LET room == reqs[r].got
         newPlayer == MkRoomPlayer("player-" \o now \o "-" \o Digits[Len(room.players) + 1],
                                   reqs[r].caller, FALSE, FALSE, FALSE)
     IN  reqs' = IF room.isStarted THEN Returned(reqs, r, "Game has already started")
                 ELSE IF Len(room.players) >= maxPlayers THEN Returned(reqs, r, "Room is full")
                 ELSE IF \E i \in 1..Len(room.players) : room.players[i].name = reqs[r].caller
                   THEN Returned(reqs, r, "Player name already taken")
                 ELSE [reqs EXCEPT ![r].pc = "insert", ![r].room = room,
                                   ![r].newPlayer = newPlayer]
  /\ UNCHANGED <<pgRoom, redisRoom, svcVars, calls, gameVars>>

\* addAIPlayer from the room it has read to the call of addPlayerToRoom
addAIPlayer(r, now) ==
  /\ Resolved(r, "addAIPlayer", "read1")
  /\ LET room == reqs[r].got
         newPlayer == MkRoomPlayer("ai-" \o now \o "-" \o Digits[Len(room.players) + 1],
                                   "AI", FALSE, TRUE, FALSE)
     IN  reqs' = IF reqs[r].caller \notin PlayerIds(room)
                   THEN Returned(reqs, r, "Player not found in any room")
                 ELSE IF ~FindPlayer(room, reqs[r].caller).isHost
                   THEN Returned(reqs, r, "Only the host can add AI players")
                 ELSE IF Len(room.players) >= maxPlayers THEN Returned(reqs, r, "Room is full")
                 ELSE IF room.isStarted
                   THEN Returned(reqs, r, "Cannot add AI players after game has started")
                 ELSE [reqs EXCEPT ![r].pc = "insert", ![r].room = room,
                                   ![r].newPlayer = newPlayer]
  /\ UNCHANGED <<pgRoom, redisRoom, svcVars, calls, gameVars>>

\* addPlayerToRoom: the INSERT, which the primary key of players refuses
\* for an id that is in the table
addPlayerToRoom(r) ==
  /\ reqs[r].pc = "insert"
  /\ IF reqs[r].newPlayer.id \in PlayerIds(pgRoom)
       THEN /\ reqs' = Returned(reqs, r, "Failed")
            /\ UNCHANGED pgRoom
       ELSE /\ pgRoom' = [pgRoom EXCEPT !.players = Append(@, reqs[r].newPlayer)]
            /\ reqs' = [reqs EXCEPT ![r].pc = "del", ![r].wrote = "player"]
  /\ UNCHANGED <<redisRoom, svcVars, calls, gameVars>>

\* the redis.del that ends a write; the caller then reads the room
InvalidateCache(r, next) ==
  /\ redisRoom' = NoRoom
  /\ reqs' = AwaitGetRoomById([reqs EXCEPT ![r].pc = next], r, next)

addPlayerToRoomDel(r) ==
  /\ reqs[r].pc = "del"
  /\ InvalidateCache(r, "read2")
  /\ UNCHANGED <<pgRoom, svcVars, calls, gameVars>>

addPlayerReturn(r) ==
  /\ reqs[r].op \in {"joinRoom", "addAIPlayer"}
  /\ reqs[r].pc = "read2"
  /\ reqs[r].getPc = "done"
  /\ reqs' = Returned(reqs, r, "ok")
  /\ UNCHANGED <<pgRoom, redisRoom, svcVars, calls, gameVars>>

\* startGame from the room it has read to the call of canStartGame
startGame(r) ==
  /\ Resolved(r, "startGame", "read1")
  /\ LET room == reqs[r].got
     IN  reqs' = IF ~FindPlayer(room, reqs[r].caller).isHost
                   THEN Returned(reqs, r, "Only the host can start the game")
                 ELSE IF room.isStarted THEN Returned(reqs, r, "Game has already started")
                 ELSE AwaitGetRoomById([reqs EXCEPT ![r].room = room], r, "read2")
  /\ UNCHANGED <<pgRoom, redisRoom, svcVars, calls, gameVars>>

\* canStartGame on the room it has read
canStartGame(room) ==
  IF room.isStarted THEN "Game already started"
  ELSE IF Len(room.players) < 2 THEN "Need at least 2 players"
  ELSE IF ~allPlayersSelected(room) THEN "Not all players have selected intercessions"
  ELSE "canStart"

\* a request calls initializeGame and goes on to updateRoom
InitializeBy(r, roomPlayers, tileBag, startingPlayerIndex) ==
  LET g == initializeRoomGame(roomPlayers, tileBag, startingPlayerIndex)
  IN  /\ TimerAvailable(jobs, g)
      /\ game' = g
      /\ pendingTiles' = <<>>
      /\ jobs' = checkAndExecuteAITurn(jobs, g)
      /\ reqs' = [reqs EXCEPT ![r].pc = "updateStarted", ![r].gameState = TRUE]

\* startGame once canStartGame has resolved
startGameCan(r, tileBag, startingPlayerIndex) ==
  /\ Resolved(r, "startGame", "read2")
  /\ startingPlayerIndex < Len(reqs[r].room.players)
  /\ LET reason == canStartGame(reqs[r].got)
     IN  IF reason = "canStart"
           THEN InitializeBy(r, reqs[r].room.players, tileBag, startingPlayerIndex)
           ELSE /\ reqs' = IF reason = "Not all players have selected intercessions"
                             THEN [reqs EXCEPT ![r].pc = "updateSelecting"]
                             ELSE Returned(reqs, r, reason)
                /\ UNCHANGED gameVars
  /\ UNCHANGED <<pgRoom, redisRoom, svcVars, calls>>

\* updateRoom: the UPDATE of the room in its transaction
updateRoom(r) ==
  /\ reqs[r].pc \in {"updateSelecting", "updateStarted"}
  /\ pgRoom' = IF reqs[r].pc = "updateSelecting"
                 THEN [pgRoom EXCEPT !.intercessionSelectionStarted = TRUE]
               ELSE IF reqs[r].op = "startGame"
                 THEN [pgRoom EXCEPT !.isStarted = TRUE, !.gameState = TRUE,
                                     !.intercessionSelectionStarted = FALSE]
               ELSE [pgRoom EXCEPT !.isStarted = TRUE, !.gameState = TRUE]
  /\ reqs' = [reqs EXCEPT ![r].pc = "delRoom",
                          ![r].wrote = IF reqs[r].pc = "updateStarted" THEN "started"
                                                                       ELSE "selecting"]
  /\ UNCHANGED <<redisRoom, svcVars, calls, gameVars>>

updateRoomDel(r) ==
  /\ reqs[r].pc = "delRoom"
  /\ InvalidateCache(r, "read3")
  /\ UNCHANGED <<pgRoom, svcVars, calls, gameVars>>

\* the request returns after its last read; the handler of a started game
\* calls checkAndExecuteAITurn
requestReturn(r) ==
  /\ reqs[r].op \in {"startGame", "selectIntercessions"}
  /\ reqs[r].pc = "read3"
  /\ reqs[r].getPc = "done"
  /\ reqs' = Returned(reqs, r, "ok")
  /\ IF reqs[r].gameState
       THEN /\ TimerAvailable(jobs, game)
            /\ jobs' = checkAndExecuteAITurn(jobs, game)
            /\ UNCHANGED <<game, pendingTiles>>
       ELSE UNCHANGED gameVars
  /\ UNCHANGED <<pgRoom, redisRoom, svcVars, calls>>

\* selectIntercessions from the room of getPlayerInRoom to the call of
\* updatePlayerIntercessions
selectIntercessions(r) ==
  /\ Resolved(r, "selectIntercessions", "read1")
  /\ reqs' = IF reqs[r].caller \notin PlayerIds(reqs[r].got)
               THEN Returned(reqs, r, "Player not found in any room")
               ELSE [reqs EXCEPT ![r].pc = "updatePlayer", ![r].room = reqs[r].got]
  /\ UNCHANGED <<pgRoom, redisRoom, svcVars, calls, gameVars>>

\* updatePlayerIntercessions: the UPDATE, which the database accepts or not
updatePlayerIntercessions(r, accepted) ==
  /\ reqs[r].pc = "updatePlayer"
  /\ IF accepted
       THEN /\ pgRoom' = [pgRoom EXCEPT !.players =
                            [i \in 1..Len(pgRoom.players) |->
                               IF pgRoom.players[i].id = reqs[r].caller
                                 THEN [pgRoom.players[i] EXCEPT !.selected = TRUE]
                                 ELSE pgRoom.players[i]]]
            /\ reqs' = [reqs EXCEPT ![r].pc = "delPlayer"]
       ELSE /\ reqs' = Returned(reqs, r, "Failed to select intercessions")
            /\ UNCHANGED pgRoom
  /\ UNCHANGED <<redisRoom, svcVars, calls, gameVars>>

updatePlayerIntercessionsDel(r) ==
  /\ reqs[r].pc = "delPlayer"
  /\ InvalidateCache(r, "read2")
  /\ UNCHANGED <<pgRoom, svcVars, calls, gameVars>>

\* selectIntercessions on the room it has read after its update
selectIntercessionsStart(r, tileBag, startingPlayerIndex) ==
  /\ Resolved(r, "selectIntercessions", "read2")
  /\ startingPlayerIndex < Len(reqs[r].got.players)
  /\ LET updatedRoom == reqs[r].got
     IN  IF allPlayersSelected(updatedRoom) /\ Len(updatedRoom.players) >= 2
           THEN InitializeBy(r, updatedRoom.players, tileBag, startingPlayerIndex)
           ELSE /\ reqs' = AwaitGetRoomById(reqs, r, "read3")
                /\ UNCHANGED gameVars
  /\ UNCHANGED <<pgRoom, redisRoom, svcVars, calls>>

\* pass-turn of the host in the game of the room
RoomPassTurn ==
  /\ game # NoGame
  /\ CurrentPlayer(game).id = HUMAN
  /\ HumanPassTurn

(***************************************************************************)
(* SpecRoom: a room that createRoom has made, and the requests to it       *)
(***************************************************************************)
HostPlayer(selected) == MkRoomPlayer(HUMAN, "host", TRUE, FALSE, selected)

\* the room after createRoom, after a guest has joined or an AI was added,
\* after the host or the guest have selected their intercessions
CreatedRooms ==
  {MkRoom(<<HostPlayer(selected)>>, FALSE, FALSE) : selected \in BOOLEAN}
  \cup {MkRoom(<<HostPlayer(selected), MkRoomPlayer(GUEST, "guest", FALSE, FALSE, other)>>,
               FALSE, selecting) : selected \in BOOLEAN, other \in BOOLEAN, selecting \in BOOLEAN}
  \cup {MkRoom(<<HostPlayer(selected), MkRoomPlayer(AI, "AI", FALSE, TRUE, FALSE)>>,
               FALSE, FALSE) : selected \in BOOLEAN}

\* the requests of the sockets: the operation and the player or the name
RoomRequests ==
  ({"getRoom", "startGame", "addAIPlayer", "selectIntercessions"} \X {HUMAN, GUEST})
  \cup ({"joinRoom"} \X {"guest", "mate"})

\* the key of the room is cached, or has expired
InitRoom ==
  /\ ServiceInit({Missing})
  /\ pgRoom \in CreatedRooms
  /\ redisRoom \in {pgRoom, NoRoom}
  /\ reqs = [r \in Requests |-> IdleRequest]
  /\ game = NoGame
  /\ pendingTiles = <<>>
  /\ jobs = [c \in Callers |-> FreeJob]

NextRoom ==
  \/ \E r \in Requests, request \in RoomRequests : RoomRequest(r, request[1], request[2])
  \/ \E r \in Requests : getRoomByIdCached(r)
  \/ \E r \in Requests : getRoomByIdQuery(r)
  \/ \E r \in Requests : getRoomByIdSetex(r)
  \/ \E r \in Requests : getRoomReturn(r)
  \/ \E r \in Requests, now \in Clock : joinRoom(r, now)
  \/ \E r \in Requests, now \in Clock : addAIPlayer(r, now)
  \/ \E r \in Requests : addPlayerToRoom(r)
  \/ \E r \in Requests : addPlayerToRoomDel(r)
  \/ \E r \in Requests : addPlayerReturn(r)
  \/ \E r \in Requests : startGame(r)
  \/ \E r \in Requests, tileBag \in InitialBags, startingPlayerIndex \in 0..maxPlayers :
       startGameCan(r, tileBag, startingPlayerIndex)
  \/ \E r \in Requests : updateRoom(r)
  \/ \E r \in Requests : updateRoomDel(r)
  \/ \E r \in Requests : requestReturn(r)
  \/ \E r \in Requests : selectIntercessions(r)
  \/ \E r \in Requests, accepted \in BOOLEAN : updatePlayerIntercessions(r, accepted)
  \/ \E r \in Requests : updatePlayerIntercessionsDel(r)
  \/ \E r \in Requests, tileBag \in InitialBags, startingPlayerIndex \in 0..maxPlayers :
       selectIntercessionsStart(r, tileBag, startingPlayerIndex)
  \/ RoomPassTurn

SpecRoom == InitRoom /\ [][NextRoom]_vars

(***************************************************************************)
(* Intercessions                                                           *)
(***************************************************************************)
MichaelDamage == 30
GabrielDamage == 30
RaphaelHealing == 50
MetatronHealing == 100

IntercessionTypes == {"MICHAEL", "SAMAEL", "RAPHAEL", "URIEL", "GABRIEL", "METATRON"}

\* INTERCESSION_DEFINITIONS[type].cooldown
Cooldown(type) ==
  CASE type = "MICHAEL" -> 4
    [] type = "SAMAEL" -> 4
    [] type = "RAPHAEL" -> 8
    [] type = "URIEL" -> 4
    [] type = "GABRIEL" -> 6
    [] type = "METATRON" -> 16

\* createIntercession: a player holds one intercession of a type, and the
\* type stands for the generated id
createIntercession(type) ==
  [id |-> type, type |-> type, cooldown |-> Cooldown(type), currentCooldown |-> 0]

createPlayerIntercessions(selectedTypes) ==
  [k \in 1..Len(selectedTypes) |-> createIntercession(selectedTypes[k])]

PlayerIndex(g, playerId) ==
  CHOOSE i \in DOMAIN g.players : g.players[i].id = playerId

\* intercessions.map(i => i.id === intercessionId ? {...i, currentCooldown: i.cooldown} : i)
OnCooldown(g, playerId, intercessionId) ==
  LET held == g.players[PlayerIndex(g, playerId)].intercessions
  IN  [g EXCEPT !.players[PlayerIndex(g, playerId)].intercessions =
         [k \in 1..Len(held) |->
            IF held[k].id = intercessionId
              THEN [held[k] EXCEPT !.currentCooldown = held[k].cooldown]
              ELSE held[k]]]

\* players.find(p => p.id !== playerId && !p.hasEndedGame)
ValidOpponents(g, playerId) ==
  {i \in DOMAIN g.players : g.players[i].id # playerId /\ ~g.players[i].hasEndedGame}

FirstOf(indexes) == CHOOSE i \in indexes : \A j \in indexes : i <= j

Activation(success, g) == [success |-> success, g |-> g]

\* the direct damage of Michael and of the fallback of Gabriel
\* the damage of an intercession without the end of the game
DirectDamageKeepsPhase(g, opp, damage) ==
  [g EXCEPT !.players[opp].hp = Max(0, @ - damage)]

DirectDamage(g, opp, damage) ==
  LET newHP == Max(0, g.players[opp].hp - damage)
  IN  [g EXCEPT !.players[opp].hp = newHP,
                !.gamePhase = IF newHP <= 0 THEN "FINISHED" ELSE @]

executeMichael(g, playerId, intercessionId) ==
  IF ValidOpponents(g, playerId) = {}
    THEN Activation(FALSE, g)
    ELSE Activation(TRUE, OnCooldown(DirectDamage(g, FirstOf(ValidOpponents(g, playerId)),
                                                  MichaelDamage),
                                     playerId, intercessionId))

executeSamael(g, playerId, intercessionId) ==
  Activation(TRUE, [OnCooldown(g, playerId, intercessionId) EXCEPT
                      !.players[PlayerIndex(g, playerId)].samaelDoubleDamage = TRUE])

\* the healing of an intercession without the cap
HealedUncapped(g, playerId, intercessionId, healing) ==
  Activation(TRUE, [OnCooldown(g, playerId, intercessionId) EXCEPT
                      !.players[PlayerIndex(g, playerId)].hp = @ + healing])

Healed(g, playerId, intercessionId, healing) ==
  Activation(TRUE, [OnCooldown(g, playerId, intercessionId) EXCEPT
                      !.players[PlayerIndex(g, playerId)].hp = Min(MaxHp, @ + healing)])

executeRaphael(g, playerId, intercessionId) ==
  Healed(g, playerId, intercessionId, RaphaelHealing)

executeUriel(g, playerId, intercessionId) ==
  Activation(TRUE, [OnCooldown(g, playerId, intercessionId) EXCEPT
                      !.players[PlayerIndex(g, playerId)].urielProtection = TRUE])

executeMetatron(g, playerId, intercessionId) ==
  Healed(g, playerId, intercessionId, MetatronHealing)

\* executeIntercession up to its switch: the early returns
IntercessionRejected(g, playerId, intercessionId) ==
  \/ \A i \in DOMAIN g.players : g.players[i].id # playerId
  \/ LET held == g.players[PlayerIndex(g, playerId)].intercessions
     IN  \/ \A k \in 1..Len(held) : held[k].id # intercessionId
         \/ \E k \in 1..Len(held) : held[k].id = intercessionId /\ held[k].currentCooldown > 0

\* executeIntercession for the types that do not wait for the AI service
executeIntercession(g, playerId, intercessionId) ==
  IF IntercessionRejected(g, playerId, intercessionId) THEN Activation(FALSE, g)
  ELSE CASE intercessionId = "MICHAEL" -> executeMichael(g, playerId, intercessionId)
         [] intercessionId = "SAMAEL" -> executeSamael(g, playerId, intercessionId)
         [] intercessionId = "RAPHAEL" -> executeRaphael(g, playerId, intercessionId)
         [] intercessionId = "URIEL" -> executeUriel(g, playerId, intercessionId)
         [] intercessionId = "METATRON" -> executeMetatron(g, playerId, intercessionId)

\* the history entry that the handler of activate-intercession adds
addIntercessionToHistory(g, playerId, type) ==
  [g EXCEPT !.moveHistory =
     Append(@, [playerId |-> playerId, moveType |-> "INTERCESSION",
                turnNumber |-> g.turnNumber, spellName |-> type])]

(***************************************************************************)
(* The requests of a socket in a started game                              *)
(***************************************************************************)
\* moves in the history of a duel
MaxDuelHistory == 3

\* the response that the handler emits to the socket of the human player
Respond(op, result) ==
  [reqs EXCEPT ![1] = [IdleRequest EXCEPT !.op = op, !.caller = HUMAN,
                                          !.pc = "returned", !.result = result]]

LowestFreeJob == CHOOSE d \in FreeJobs(jobs) : \A e \in FreeJobs(jobs) : d <= e

\* the state after a request: the timer of the handler is set in base
Settled(out, base, op) ==
  /\ out.check => TimerAvailable(base, out.g)
  /\ game' = out.g
  /\ pendingTiles' = out.pending
  /\ jobs' = IF out.check THEN checkAndExecuteAITurn(base, out.g) ELSE base
  /\ reqs' = Respond(op, IF out.success THEN "ok" ELSE "rejected")

\* place-tile: the handler, addPendingTile, and moveManager.addTile, which
\* accepts the tile or not
PlaceTile(tile, row, col, accepted) ==
  /\ \A i \in 1..Len(pendingTiles) :
       /\ <<pendingTiles[i].row, pendingTiles[i].col>> # <<row, col>>
       /\ pendingTiles[i].tile.id # tile.id
  /\ IF /\ CurrentPlayer(game).id = HUMAN
        /\ validateTileOwnership(CurrentPlayer(game), tile)
        /\ tile.id \notin Range(CurrentPlayer(game).silencedTiles)
        /\ accepted
       THEN /\ pendingTiles' = Append(pendingTiles, [tile |-> tile, row |-> row, col |-> col])
            /\ reqs' = Respond("place-tile", "ok")
       ELSE /\ reqs' = Respond("place-tile", "rejected")
            /\ UNCHANGED pendingTiles
  /\ UNCHANGED <<game, jobs, pgRoom, redisRoom, svcVars, calls>>

\* pass-turn: passTurn, then the 500 ms timer of checkAndExecuteAITurn
PassTurnRequest ==
  /\ Len(game.moveHistory) < MaxDuelHistory
  /\ LET out == passTurn(game, pendingTiles, HUMAN)
     IN  IF out.success
           THEN /\ FreeJobs(jobs) # {}
                /\ Settled(out, [jobs EXCEPT ![LowestFreeJob] = [FreeJob EXCEPT !.pc = "recheck"]],
                           "pass-turn")
           ELSE Settled(out, jobs, "pass-turn")
  /\ UNCHANGED <<pgRoom, redisRoom, svcVars, calls>>

\* exchange-tiles: exchangeTiles, whose nextTurn calls checkAndExecuteAITurn
ExchangeRequest(tileIds) ==
  /\ Len(game.moveHistory) < MaxDuelHistory
  /\ \E shuffled \in Shuffles(ExchangeNewBag(game, tileIds)) :
       Settled(exchangeTiles(game, pendingTiles, HUMAN, tileIds, shuffled), jobs,
               "exchange-tiles")
  /\ UNCHANGED <<pgRoom, redisRoom, svcVars, calls>>

\* commit-move up to the await of moveManager.executeMove
CommitRequest ==
  /\ Len(game.moveHistory) < MaxDuelHistory
  /\ IF CommitRejected(game, pendingTiles, HUMAN)
       THEN /\ reqs' = Respond("commit-move", "rejected")
            /\ UNCHANGED <<jobs, calls>>
       ELSE /\ FreeJobs(jobs) # {}
            /\ calls[LowestFreeJob].pc = "idle"
            /\ jobs' = [jobs EXCEPT ![LowestFreeJob] =
                          [FreeJob EXCEPT !.pc = "humanCommitting", !.player = HUMAN,
                                          !.mover = HUMAN, !.gs = game]]
            /\ calls' = [calls EXCEPT ![LowestFreeJob].placedTiles = pendingTiles]
            /\ reqs' = [reqs EXCEPT ![1] = [IdleRequest EXCEPT !.op = "commit-move",
                                                               !.caller = HUMAN,
                                                               !.pc = "executeMove"]]
  /\ UNCHANGED <<game, pendingTiles, pgRoom, redisRoom, svcVars>>

\* moveManager.executeMove has settled: the rest of commitMove on the game
\* state and the pending tiles read before the await, and the 2500 ms timer
\* that the handler sets after a move
CommitDone(d, moveResult) ==
  /\ jobs[d].pc = "humanCommitting"
  /\ moveResult.isValid => ~executeMoveRefuses(CurrentPlayer(jobs[d].gs), calls[d].placedTiles)
  /\ LET base(timer) == [jobs EXCEPT ![d] = IF timer THEN [FreeJob EXCEPT !.pc = "recheck"]
                                                     ELSE FreeJob]
     IN  IF moveResult.throws \/ ~moveResult.isValid
           THEN /\ Settled(Outcome(FALSE, game, pendingTiles, FALSE), base(FALSE), "commit-move")
                /\ calls' = [calls EXCEPT ![d] = IdleCall]
           ELSE /\ Settled(commitMoveApply(jobs[d].gs, calls[d].placedTiles, moveResult),
                           base(TRUE), "commit-move")
                /\ UNCHANGED calls
  /\ UNCHANGED <<pgRoom, redisRoom, svcVars>>

\* activate-intercession for the types that do not wait: executeIntercession,
\* the history entry, and the 500 ms timer of checkAndExecuteAITurn
ActivateIntercession(type) ==
  /\ type # "GABRIEL"
  /\ Len(game.moveHistory) < MaxDuelHistory
  /\ LET done == executeIntercession(game, HUMAN, type)
     IN  IF done.success
           THEN /\ FreeJobs(jobs) # {}
                /\ Settled(Outcome(TRUE, addIntercessionToHistory(done.g, HUMAN, type),
                                   pendingTiles, FALSE),
                           [jobs EXCEPT ![LowestFreeJob] = [FreeJob EXCEPT !.pc = "recheck"]],
                           "activate-intercession")
           ELSE Settled(Outcome(FALSE, game, pendingTiles, FALSE), jobs,
                        "activate-intercession")
  /\ UNCHANGED <<pgRoom, redisRoom, svcVars, calls>>

\* activate-intercession for Gabriel: executeIntercession and executeGabriel
\* up to the await of generateMove
ActivateGabriel ==
  /\ Len(game.moveHistory) < MaxDuelHistory
  /\ IF IntercessionRejected(game, HUMAN, "GABRIEL")
       THEN /\ reqs' = Respond("activate-intercession", "rejected")
            /\ UNCHANGED <<game, jobs, svcVars, calls, pgRoom, redisRoom>>
       ELSE LET d == LowestFreeJob
                updatedGameState == OnCooldown(game, HUMAN, "GABRIEL")
                player == updatedGameState.players[PlayerIndex(game, HUMAN)]
            IN  /\ FreeJobs(jobs) # {}
                /\ game' = updatedGameState
                /\ GenCall(d, [playerFound |-> TRUE, tiles |-> player.tiles,
                               board |-> updatedGameState.board])
                /\ jobs' = [jobs EXCEPT ![d] =
                              [FreeJob EXCEPT !.pc = "gabriel", !.player = HUMAN,
                                              !.mover = HUMAN, !.gs = updatedGameState]]
  /\ UNCHANGED pendingTiles

\* executeGabriel has returned success: the history entry and the 500 ms
\* timer of the handler
GabrielReturns(d, g, pending, effect) ==
  /\ game' = addIntercessionToHistory(g, HUMAN, "GABRIEL")
  /\ pendingTiles' = pending
  /\ jobs' = [jobs EXCEPT ![d] = [FreeJob EXCEPT !.pc = "recheck", !.observed = effect]]
  /\ reqs' = Respond("activate-intercession", "ok")

\* generateMove has settled: executeGabriel up to the await of
\* moveManager.executeMove, or to its end
GabrielMoveReady(d) ==
  /\ jobs[d].pc = "gabriel"
  /\ calls[d].pc \in {"returned", "threw"}
  /\ LET aiMove == calls[d].result
         updatedGameState == jobs[d].gs
     IN  IF calls[d].pc = "threw"
           THEN GabrielReturns(d, game, pendingTiles, "Auto-play error")
         ELSE IF aiMove.type = "WORD" /\ Len(aiMove.tiles) > 0
           THEN IF CommitRejected(game, aiMove.tiles, HUMAN)
                  THEN GabrielReturns(d, game, <<>>, "Auto-play failed")
                  ELSE /\ jobs' = [jobs EXCEPT ![d] = [@ EXCEPT !.pc = "gabrielCommitting",
                                                                !.gs = game]]
                       /\ pendingTiles' = aiMove.tiles
                       /\ UNCHANGED <<game, reqs>>
         ELSE IF ValidOpponents(updatedGameState, HUMAN) = {}
           THEN GabrielReturns(d, game, pendingTiles, "No valid opponent for fallback damage")
         ELSE GabrielReturns(d, DirectDamage(updatedGameState,
                                             FirstOf(ValidOpponents(updatedGameState, HUMAN)),
                                             GabrielDamage),
                             pendingTiles, "damage")
  /\ UNCHANGED <<pgRoom, redisRoom, svcVars, calls>>

\* moveManager.executeMove has settled: the rest of
\* commitMoveWithoutTurnAdvancement and of executeGabriel
GabrielCommitDone(d, moveResult) ==
  /\ jobs[d].pc = "gabrielCommitting"
  /\ moveResult.isValid => ~executeMoveRefuses(CurrentPlayer(jobs[d].gs), calls[d].result.tiles)
  /\ IF moveResult.throws
       THEN GabrielReturns(d, game, pendingTiles, "Auto-play error")
     ELSE IF ~moveResult.isValid
       THEN GabrielReturns(d, game, <<>>, "Auto-play failed")
     ELSE LET out == commitMoveApply(jobs[d].gs, calls[d].result.tiles,
                                     [moveResult EXCEPT !.skipTurnAdvancement = TRUE])
              next == nextTurn(out.g)
              returned == [jobs EXCEPT ![d] = [FreeJob EXCEPT !.pc = "recheck",
                                                              !.observed = "played"]]
          IN  /\ next.check => TimerAvailable(returned, next.g)
              /\ game' = addIntercessionToHistory(next.g, HUMAN, "GABRIEL")
              /\ pendingTiles' = <<>>
              /\ jobs' = IF next.check THEN checkAndExecuteAITurn(returned, next.g)
                                       ELSE returned
              /\ reqs' = Respond("activate-intercession", "ok")
  /\ UNCHANGED <<pgRoom, redisRoom, svcVars, calls>>

\* the timer fires in a duel
DuelJobFire(c) ==
  /\ Len(game.moveHistory) < MaxDuelHistory
  /\ executeAIMove(c)

(***************************************************************************)
(* SpecDuel: a started game of the host against the AI, with intercessions *)
(***************************************************************************)
DuelSource == [exists |-> TRUE, content |-> <<"a", "T">>]

\* the intercessions that the host has selected
DuelSelections ==
  {<<"URIEL", "SAMAEL">>, <<"GABRIEL", "MICHAEL">>, <<"RAPHAEL", "METATRON">>}

DuelSearches ==
  { MkSearch(<<>>, <<>>, 100, FALSE),
    MkSearch(<<MkMove(<<"A", "T">>, 7, 7, "H")>>, <<"valid">>, 100, FALSE),
    MkSearch(<<MkMove(<<"K", "A">>, 7, 7, "H")>>, <<"valid">>, 100, FALSE) }

\* executeMove throws, refuses the move, or accepts it with no damage and
\* an evocation picked up, or with nearly all the hp as damage
DuelMoveResults ==
  { MkMoveResult(TRUE, FALSE, 0, <<>>, FALSE),
    MkMoveResult(FALSE, FALSE, 0, <<>>, FALSE),
    MkMoveResult(FALSE, TRUE, 0, <<EVOCATION>>, FALSE),
    MkMoveResult(FALSE, TRUE, StartHp - MichaelDamage, <<>>, FALSE) }

\* a tile of the host and a tile of the AI, on the center cell
DuelTiles == {FullRack[1], FullRack[TILES_PER_PLAYER + 1]}

\* the service after the AI turn of an earlier game has initialized it
ServiceReady ==
  /\ source = DuelSource
  /\ dsWords = [build |-> 1, words |-> Range(ReadWords(source.content))]
  /\ dsLoaded = TRUE
  /\ gaddag = buildGaddagFromDictionaryService(1)
  /\ dictionary = getDictionarySet(1)
  /\ initPromise = 1
  /\ isInitializing = FALSE
  /\ promises = [p \in PromiseIds |-> IF p = 1 THEN "fulfilled" ELSE "unused"]

InitDuelWith(selections) ==
  /\ ServiceReady
  /\ initPc = [p \in PromiseIds |-> IF p = 1 THEN "done" ELSE "none"]
  /\ calls = [c \in Callers |-> IdleCall]
  /\ NoRooms
  /\ \E tileBag \in InitialBags, startingPlayerIndex \in {0, 1}, selected \in selections :
       /\ game = [initializeGame(tileBag, startingPlayerIndex) EXCEPT
                    !.players[0].intercessions = createPlayerIntercessions(selected)]
       /\ jobs = checkAndExecuteAITurn(
                   checkAndExecuteAITurn([c \in Callers |-> FreeJob], game), game)
  /\ pendingTiles = <<>>

InitDuel == InitDuelWith(DuelSelections)

NextDuel ==
  \/ \E c \in Callers, search \in DuelSearches : GenInitFulfilled(c, search)
  \/ \E c \in Callers : GenMovesSettled(c)
  \/ \E c \in Callers : GenValidated(c)
  \/ \E c \in Callers : DuelJobFire(c)
  \/ \E c \in Callers : JobMoveReady(c)
  \/ \E c \in Callers, moveResult \in DuelMoveResults : JobCommitDone(c, moveResult)
  \/ \E c \in Callers : JobRecheck(c)
  \/ \E tile \in DuelTiles, accepted \in BOOLEAN : PlaceTile(tile, 7, 7, accepted)
  \/ PassTurnRequest
  \/ \E type \in IntercessionTypes : ActivateIntercession(type)
  \/ ActivateGabriel
  \/ \E d \in Callers : GabrielMoveReady(d)
  \/ \E d \in Callers, moveResult \in DuelMoveResults : GabrielCommitDone(d, moveResult)

SpecDuel == InitDuel /\ [][NextDuel]_vars

(***************************************************************************)
(* The moves of a duel: the requests of the human to place, commit,        *)
(* exchange and pass, the moves of the AI player, and MICHAEL              *)
(***************************************************************************)
InitMoves == InitDuelWith({<<"MICHAEL", "URIEL">>})

NextMoves ==
  \/ \E c \in Callers, search \in DuelSearches : GenInitFulfilled(c, search)
  \/ \E c \in Callers : GenMovesSettled(c)
  \/ \E c \in Callers : GenValidated(c)
  \/ \E c \in Callers : DuelJobFire(c)
  \/ \E c \in Callers : JobMoveReady(c)
  \/ \E c \in Callers, moveResult \in DuelMoveResults : JobCommitDone(c, moveResult)
  \/ \E c \in Callers : JobRecheck(c)
  \/ \E tile \in DuelTiles, accepted \in BOOLEAN : PlaceTile(tile, 7, 7, accepted)
  \/ PassTurnRequest
  \/ \E tile \in DuelTiles : ExchangeRequest(<<tile.id>>)
  \/ CommitRequest
  \/ \E d \in Callers, moveResult \in DuelMoveResults : CommitDone(d, moveResult)
  \/ ActivateIntercession("MICHAEL")

SpecMoves == InitMoves /\ [][NextMoves]_vars

(***************************************************************************)
(* The end of a game of two humans: each of them passes, exchanges and     *)
(* ends the game                                                           *)
(***************************************************************************)
Humans == {HUMAN, GUEST}

\* end-game: endGame, whose nextTurn calls checkAndExecuteAITurn
EndGameRequest(playerId) ==
  /\ LET out == endGame(game, pendingTiles, playerId)
     IN  /\ out.check => TimerAvailable(jobs, out.g)
         /\ game' = out.g
         /\ pendingTiles' = out.pending
         /\ jobs' = IF out.check THEN checkAndExecuteAITurn(jobs, out.g) ELSE jobs
  /\ UNCHANGED <<svcVars, calls, roomVars>>

\* pass-turn of one of the humans: passTurn, then the 500 ms timer of
\* checkAndExecuteAITurn
PassTurnOf(playerId) ==
  /\ Len(game.moveHistory) < MaxHistory
  /\ LET out == passTurn(game, pendingTiles, playerId)
         waiting == [jobs EXCEPT ![LowestFreeJob] = [FreeJob EXCEPT !.pc = "recheck"]]
     IN  /\ out.success => FreeJobs(jobs) # {}
         /\ out.check => TimerAvailable(waiting, out.g)
         /\ game' = out.g
         /\ pendingTiles' = out.pending
         /\ jobs' = IF ~out.success THEN jobs
                    ELSE IF out.check THEN checkAndExecuteAITurn(waiting, out.g)
                    ELSE waiting
  /\ UNCHANGED <<svcVars, calls, roomVars>>

\* exchange-tiles of one of the humans
ExchangeOf(playerId, tileIds) ==
  /\ Len(game.moveHistory) < MaxHistory
  /\ \E shuffled \in Shuffles(ExchangeNewBag(game, tileIds)) :
       LET out == exchangeTiles(game, pendingTiles, playerId, tileIds, shuffled)
       IN  /\ out.check => TimerAvailable(jobs, out.g)
           /\ game' = out.g
           /\ pendingTiles' = out.pending
           /\ jobs' = IF out.check THEN checkAndExecuteAITurn(jobs, out.g) ELSE jobs
  /\ UNCHANGED <<svcVars, calls, roomVars>>

InitEnd ==
  /\ ServiceInit({Missing})
  /\ NoRooms
  /\ \E tileBag \in InitialBags, startingPlayerIndex \in {0, 1} :
       game = initializeRoomGame(<<MkRoomPlayer(HUMAN, "1", TRUE, FALSE, TRUE),
                                   MkRoomPlayer(GUEST, "2", FALSE, FALSE, TRUE)>>,
                                 tileBag, startingPlayerIndex)
  /\ jobs = [c \in Callers |-> FreeJob]
  /\ pendingTiles = <<>>

NextEnd ==
  \/ \E playerId \in Humans : EndGameRequest(playerId)
  \/ \E playerId \in Humans : PassTurnOf(playerId)
  \/ \E playerId \in Humans, tile \in Range(FullRack) : ExchangeOf(playerId, <<tile.id>>)
  \/ \E c \in Callers : JobRecheck(c)

SpecEnd == InitEnd /\ [][NextEnd]_vars

(***************************************************************************)
(* Silenced tiles: the human picks up an evocation with a word and         *)
(* activates it as MURMUR against the AI player                            *)
(***************************************************************************)
\* activate-evocation for MURMUR: the checks of the handler, the evocation
\* leaves the inventory, executeEvocationEffects silences
\* min(3, number of tiles) tiles of the opponent in a random order, and the
\* handler writes the history entry when no input of the user is needed
Murmur(silencedTileIds, logged) ==
  /\ CurrentPlayer(game).id = HUMAN
  /\ Len(CurrentPlayer(game).evocations) > 0
  /\ ValidOpponents(game, HUMAN) # {}
  /\ logged => Len(game.moveHistory) < MaxDuelHistory
  /\ LET me == PlayerIndex(game, HUMAN)
         opp == FirstOf(ValidOpponents(game, HUMAN))
         silenced == [game EXCEPT !.players[me].evocations = Tail(@),
                                  !.players[opp].silencedTiles = silencedTileIds]
     IN  /\ Len(game.players[opp].tiles) > 0
         /\ Len(silencedTileIds) = Min(3, Len(game.players[opp].tiles))
         /\ IsInjective(silencedTileIds)
         /\ Range(silencedTileIds) \subseteq TileIds(game.players[opp].tiles)
         /\ game' = IF logged THEN addMoveToHistory(silenced, HUMAN, "EVOCATION")
                              ELSE silenced
  /\ UNCHANGED <<pendingTiles, jobs, svcVars, calls, roomVars>>

InitSilence == InitDuelWith({<<>>})

NextSilence ==
  \/ \E c \in Callers, search \in DuelSearches : GenInitFulfilled(c, search)
  \/ \E c \in Callers : GenMovesSettled(c)
  \/ \E c \in Callers : GenValidated(c)
  \/ \E c \in Callers : DuelJobFire(c)
  \/ \E c \in Callers : JobMoveReady(c)
  \/ \E c \in Callers, moveResult \in DuelMoveResults : JobCommitDone(c, moveResult)
  \/ \E c \in Callers : JobRecheck(c)
  \/ \E tile \in DuelTiles, accepted \in BOOLEAN : PlaceTile(tile, 7, 7, accepted)
  \/ PassTurnRequest
  \/ CommitRequest
  \/ \E d \in Callers, moveResult \in DuelMoveResults : CommitDone(d, moveResult)
  \/ \E silencedTileIds \in SeqsUpTo({t.id : t \in Range(FullRack)}, 3), logged \in BOOLEAN :
       Murmur(silencedTileIds, logged)

SpecSilence == InitSilence /\ [][NextSilence]_vars

(***************************************************************************)
(* Claims about the rooms                                                  *)
(***************************************************************************)
\* C21: read-after-write on rooms: a getRoomById that was called after
\* addPlayerToRoom or updateRoom had completed returns the room with the
\* player that was added and with the start that was written, whatever
\* other getRoomById calls run at the same time
ReadAfterWrite ==
  \A r \in Requests :
    reqs[r].getPc = "done" => Includes(reqs[r].got, reqs[r].began)

\* C29: a room never holds more than maxPlayers players, in any
\* interleaving of joinRoom and addAIPlayer
RoomNeverOverfull ==
  Len(pgRoom.players) <= maxPlayers

\* C28: the game of a room is initialized once: of all the requests to the
\* room, startGame and selectIntercessions, at most one calls initializeGame
GameInitializedOnce ==
  Cardinality({r \in Requests : reqs[r].gameState}) <= 1

(***************************************************************************)
(* Claims about the turns of a game                                        *)
(***************************************************************************)
\* C25: once gamePhase is FINISHED no step changes the board, a rack, the
\* hp of a player or the current player
FinishedGameIsFrozen ==
  [][game.gamePhase = "FINISHED" =>
       /\ game'.board = game.board
       /\ game'.currentPlayerIndex = game.currentPlayerIndex
       /\ \A i \in DOMAIN game.players :
            /\ game'.players[i].tiles = game.players[i].tiles
            /\ game'.players[i].hp = game.players[i].hp]_vars

\* executeAIMove of job c applies its word, exchange or pass to the game
AIActionApplied(c) ==
  /\ jobs[c].pc \in {"generating", "committing"}
  /\ jobs'[c].pc = "recheck"
  /\ game' # game

\* C26: at most one AI action is applied for a turn of an AI player: an
\* executeAIMove applies its action on the turn of its AI player, never
\* after another executeAIMove has used that turn and the turn has gone to
\* the other player
OneAIActionPerTurn ==
  [][\A c \in Callers :
       AIActionApplied(c) => CurrentPlayer(game).id = jobs[c].mover]_vars

(***************************************************************************)
(* Claims about the intercessions                                          *)
(***************************************************************************)
\* the words of a player in the history of a game
WordsOf(g, playerId) ==
  Len(SelectSeq(g.moveHistory,
                LAMBDA m : m.playerId = playerId /\ m.moveType = "WORD"))

\* executeGabriel of job d returns, and all its returns after the cooldown
\* is set are success: true
GabrielSucceeds(d) ==
  /\ jobs[d].pc \in {"gabriel", "gabrielCommitting"}
  /\ jobs'[d].pc = "recheck"

\* C22: a successful GABRIEL activation commits a word for the activating
\* player or takes GabrielDamage hp from the opponent
GabrielPlaysOrDamages ==
  [][\A d \in Callers :
       GabrielSucceeds(d) =>
         \/ WordsOf(game', HUMAN) > WordsOf(game, HUMAN)
         \/ \E opp \in ValidOpponents(game, HUMAN) :
              game'.players[opp].hp = Max(0, game.players[opp].hp - GabrielDamage)]_vars

\* the entry of the history of g at i is the URIEL of playerId
IsUrielOf(g, i, playerId) ==
  /\ g.moveHistory[i].moveType = "INTERCESSION"
  /\ g.moveHistory[i].playerId = playerId
  /\ g.moveHistory[i].spellName = "URIEL"

\* the entry of the history of g at k is a move that ended a turn of a
\* player other than playerId
EndsOpponentTurn(g, k, playerId) ==
  /\ g.moveHistory[k].moveType \in {"WORD", "EXCHANGE", "PASS"}
  /\ g.moveHistory[k].playerId # playerId

\* C23: the protection of URIEL lasts for the next turn of the opponent:
\* when a turn of the opponent has ended after the activation, the
\* activating player is no longer protected
UrielProtectionEnds ==
  \A p \in DOMAIN game.players :
    (\E i, k \in 1..Len(game.moveHistory) :
        /\ i < k
        /\ IsUrielOf(game, i, game.players[p].id)
        /\ EndsOpponentTurn(game, k, game.players[p].id))
      => ~game.players[p].urielProtection

\* a step of executeAIMove or of executeGabriel of job c, which runs for the
\* player jobs[c].mover
AutoPlayStep(c) ==
  /\ jobs[c].pc \in {"generating", "committing", "gabriel", "gabrielCommitting"}
  /\ jobs'[c] # jobs[c]

\* C27: the pending tiles of the current player are not replaced or cleared
\* by an AI move execution or a Gabriel auto-play that runs for another
\* player
PendingTilesOfCurrentPlayerKept ==
  [][\A c \in Callers :
       AutoPlayStep(c) /\ jobs[c].mover # CurrentPlayer(game).id
         => pendingTiles' = pendingTiles]_vars

(***************************************************************************)
(* Claims about the hp of the players                                      *)
(***************************************************************************)
\* C30: in every state of a game, if the hp of a player is 0 then
\* gamePhase is FINISHED
DefeatEndsGame ==
  \A i \in DOMAIN game.players :
    game.players[i].hp = 0 => game.gamePhase = "FINISHED"

\* MICHAEL has taken the last hp of a player whom a word had damaged
DefeatedByMichael ==
  /\ \E i \in DOMAIN game.players : game.players[i].hp = 0
  /\ game.gamePhase = "FINISHED"
  /\ Len(game.moveHistory) > 0
  /\ game.moveHistory[Len(game.moveHistory)].moveType = "INTERCESSION"
  /\ game.moveHistory[Len(game.moveHistory)].spellName = "MICHAEL"

(***************************************************************************)
(* Claims about the requests of the players                                *)
(***************************************************************************)
\* a step that is a commit-move, exchange-tiles or pass-turn request of the
\* human
HumanMoveRequest ==
  \/ CommitRequest
  \/ \E tile \in DuelTiles : ExchangeRequest(<<tile.id>>)
  \/ PassTurnRequest

\* C24: a commitMove, exchangeTiles or passTurn request of a player who is
\* not the current player is rejected and leaves the board, the racks, the
\* hp of the players and the current player as they are
RequestOutOfTurnRejected ==
  [][(CurrentPlayer(game).id # HUMAN /\ HumanMoveRequest) =>
       /\ reqs'[1].result = "rejected"
       /\ game'.board = game.board
       /\ game'.currentPlayerIndex = game.currentPlayerIndex
       /\ \A i \in DOMAIN game.players :
            /\ game'.players[i].tiles = game.players[i].tiles
            /\ game'.players[i].hp = game.players[i].hp]_vars

\* a request to pass has been rejected on the turn of the AI player
PassOutOfTurnRejected ==
  /\ CurrentPlayer(game).id = AI
  /\ reqs[1].op = "pass-turn"
  /\ reqs[1].result = "rejected"

\* C31: after any sequence of word moves, intercessions and evocation
\* pickups the hp of every player is between 0 and MaxHp
HpWithinBounds ==
  \A i \in DOMAIN game.players :
    game.players[i].hp >= 0 /\ game.players[i].hp <= MaxHp

\* RAPHAEL or METATRON has healed a player who is at MaxHp
HealedAtFullHp ==
  /\ Len(game.moveHistory) > 0
  /\ LET last == game.moveHistory[Len(game.moveHistory)]
     IN  /\ last.moveType = "INTERCESSION"
         /\ last.spellName \in {"RAPHAEL", "METATRON"}
         /\ game.players[PlayerIndex(game, last.playerId)].hp = MaxHp

(***************************************************************************)
(* Claims about the end of a game                                          *)
(***************************************************************************)
AllEnded(g) == Len(g.playersEndedGame) = NumPlayers(g)

\* C32: when all players have ended the game, the score of each player is
\* reduced by the value of the tiles left on the rack, once: on the step on
\* which the last player ends the game, and never again after it
TileValuesDeductedOnce ==
  [][/\ (~AllEnded(game) /\ AllEnded(game')) =>
          \A i \in DOMAIN game.players :
            game'.players[i].score =
              game.players[i].score - SumValues(game.players[i].tiles)
     /\ AllEnded(game) =>
          \A i \in DOMAIN game.players :
            game'.players[i].score = game.players[i].score]_vars

====
